---- MODULE Spec2Model ----
(***************************************************************************)
(* A model of the hash-table benchmark wrappers:                           *)
(*   src/src/cpp_hashtables_wrapper.cpp  (absl / boost / ankerl, wyhash)   *)
(*   src/src/verstable_wrapper.c         (vt, FNV-1a string hash)          *)
(*                                                                         *)
(* 64-bit words are little-endian sequences of 8 bytes (each 0..255), so   *)
(* that the arithmetic keeps its width: every product, sum and xor below   *)
(* is computed byte by byte and truncated where the C code truncates.      *)
(***************************************************************************)
EXTENDS Integers, Sequences, FiniteSets, TLC

VARIABLES
    cfg,      \* the instantiation under test: [key : "u64"|"str", val : "void"|"val4"]
    tbl,      \* tbl[b]: the table behind backend b's handle
    old,      \* the tables as they were when the last call was made
    op,       \* the last call: [name, key, val]
    ret,      \* ret[b]: what the last call returned on backend b
    hist,     \* hist[k]: the value of the last insert of k, NoVal once k is erased
    nins,     \* per backend: number of inserts that found the key absent
    ners,     \* per backend: number of erases that found the key present
    cur,      \* the vt cursor of the traversal in progress, or NoCursor
    seen,     \* the keys the traversal in progress has visited, in order
    hkey,     \* hash engine: the key bytes last hashed
    hres,     \* hash engine: hres[b] is the hash backend b computed for hkey
    wy,       \* the last call of wyhash::hash: its input, lanes, seed and result
    mm,       \* the last call of wyhash::mum: its operands and both builds' results
    scratch,  \* the caller's reusable key buffer and the key inserted from it
    oom,      \* oom[b]: how an allocation failure in backend b's last call ended
    lay,      \* lay[b]: the reserved bucket count and the object size of C++ table b
    probe     \* the last call of a helper function: its arguments and results

vars == <<cfg, tbl, old, op, ret, hist, nins, ners, cur, seen, hkey, hres,
          wy, mm, scratch, oom, lay, probe>>

tableVars == <<cfg, tbl, old, op, ret, hist, nins, ners, cur, seen>>
hashVars  == <<hkey, hres>>
wyVars    == <<wy, mm>>
callerVars == <<scratch, oom, lay, probe>>

None == "none"

\* a handle after cleanup, and the absence of a cursor
Destroyed == [destroyed |-> TRUE]
NoCursor == [none |-> TRUE]

\* the null value pointer a map's get returns, and the absence of a value
nullptr == <<>>
NoVal == <<>>

(***************************************************************************)
(* Byte-wise 64-bit arithmetic.                                            *)
(***************************************************************************)
Byte == 0..255

\* Op applied to operands that are evaluated once, as a C call evaluates them
Apply1(Op(_), a) == CHOOSE r \in {Op(x) : x \in {a}} : TRUE
Apply2(Op(_, _), a, b) == CHOOSE r \in {Op(x, y) : x \in {a}, y \in {b}} : TRUE
Apply3(Op(_, _, _), a, b, c) ==
    CHOOSE r \in {Op(x, y, z) : x \in {a}, y \in {b}, z \in {c}} : TRUE

RECURSIVE XorBits(_, _, _)
XorBits(x, y, n) ==
    IF n = 0 THEN 0
    ELSE ((x + y) % 2) + 2 * XorBits(x \div 2, y \div 2, n - 1)

XorBytes(a, b) == [i \in 1..Len(a) |-> XorBits(a[i], b[i], 8)]

\* a ^ b on words of equal width
Xor(a, b) == Apply2(XorBytes, a, b)

\* a | b on words of equal width whose set bytes do not overlap bit-wise
RECURSIVE OrBits(_, _, _)
OrBits(x, y, n) ==
    IF n = 0 THEN 0
    ELSE (IF (x % 2) + (y % 2) > 0 THEN 1 ELSE 0) + 2 * OrBits(x \div 2, y \div 2, n - 1)

OrBytes(a, b) == [i \in 1..Len(a) |-> OrBits(a[i], b[i], 8)]

Or(a, b) == Apply2(OrBytes, a, b)

\* the w low bytes of the natural number n (n < 2^31)
RECURSIVE ToWord(_, _)
ToWord(n, w) == IF w = 0 THEN <<>> ELSE <<n % 256>> \o ToWord(n \div 256, w - 1)

U64(n) == ToWord(n, 8)

\* x << (8 * k) and x >> (8 * k) on a word, keeping its width
Shl(x, k) == [i \in 1..Len(x) |-> IF i > k THEN x[i - k] ELSE 0]
Shr(x, k) == [i \in 1..Len(x) |-> IF i + k <= Len(x) THEN x[i + k] ELSE 0]

\* column k (1-based) of the schoolbook product: sum of a[i] * b[k + 1 - i]
RECURSIVE Column(_, _, _, _)
Column(a, b, k, i) ==
    IF i = 0 THEN 0
    ELSE (IF (k + 1 - i) \in 1..Len(b) THEN a[i] * b[k + 1 - i] ELSE 0)
         + Column(a, b, k, i - 1)

\* carry propagation over the columns: t is column k plus the carry into it
RECURSIVE Propagate(_, _, _, _, _)
Propagate(a, b, k, n, t) ==
    IF k = n THEN <<t % 256>>
    ELSE <<t % 256>> \o Propagate(a, b, k + 1, n,
                                  Column(a, b, k + 1, Len(a)) + (t \div 256))

Product(a, b) == Propagate(a, b, 1, Len(a) + Len(b), Column(a, b, 1, Len(a)))

\* the full product of two words: Len(a) + Len(b) bytes
Mul(a, b) == Apply2(Product, a, b)

ProductLow(a, b) == Propagate(a, b, 1, Len(a), Column(a, b, 1, Len(a)))

\* the product truncated to the width of a (uint64_t *= uint64_t)
MulLow(a, b) == Apply2(ProductLow, a, b)

RECURSIVE AddCarry(_, _, _, _)
AddCarry(a, b, i, carry) ==
    IF i > Len(a) THEN <<>>
    ELSE <<(a[i] + b[i] + carry) % 256>>
         \o AddCarry(a, b, i + 1, (a[i] + b[i] + carry) \div 256)

\* a + b truncated to the width of a
Add(a, b) == AddCarry(a, b, 1, 0)

\* a < b on words of equal width
RECURSIVE LessFrom(_, _, _)
LessFrom(a, b, i) ==
    IF i = 0 THEN FALSE
    ELSE IF a[i] /= b[i] THEN a[i] < b[i]
    ELSE LessFrom(a, b, i - 1)

Less(a, b) == LessFrom(a, b, Len(a))

(***************************************************************************)
(* wyhash (cpp_hashtables_wrapper.cpp, namespace wyhash).                  *)
(***************************************************************************)
secret0 == <<47, 100, 189, 120, 100, 29, 118, 160>>    \* 0xa0761d6478bd642f
secret1 == <<219, 40, 180, 160, 209, 126, 3, 231>>     \* 0xe7037ed1a0b428db
secret2 == <<227, 198, 136, 156, 240, 106, 188, 142>>  \* 0x8ebc6af09c88c6e3
secret3 == <<195, 76, 55, 117, 204, 101, 153, 88>>     \* 0x589965cc75374cc3
golden  == <<21, 124, 74, 127, 185, 121, 55, 158>>     \* 0x9E3779B97F4A7C15

\* the two halves of a 128-bit product: <<low 64 bits, high 64 bits>>
halves(r) == <<SubSeq(r, 1, 8), SubSeq(r, 9, 16)>>

\* mum with __SIZEOF_INT128__: *a = low 64 bits, *b = high 64 bits of a * b
mum(a, b) == Apply1(halves, Mul(a, b))

\* mum without __SIZEOF_INT128__ (the #else branch): the product assembled from
\* four 32x32->64 partial products.  x >> 32U and static_cast<std::uint32_t>(x):
hi32(x) == Shr(x, 4)

lo32(x) == SubSeq(x, 1, 4) \o <<0, 0, 0, 0>>

\* rh = ha * hb; rm0 = ha * lb; rm1 = hb * la; rl = la * lb;
mum_parts(a, b) ==
    [rh |-> MulLow(hi32(a), hi32(b)), rm0 |-> MulLow(hi32(a), lo32(b)),
     rm1 |-> MulLow(hi32(b), lo32(a)), rl |-> MulLow(lo32(a), lo32(b))]

\* t = rl + (rm0 << 32U);
mum_t(q) == Add(q.rl, Shl(q.rm0, 4))

\* lo = t + (rm1 << 32U);
mum_lo(q, t) == Add(t, Shl(q.rm1, 4))

\* a carry count that leaves out the carry of the second sum
mum_c_first_only(q, t, lo) == IF Less(t, q.rl) THEN 1 ELSE 0

\* c = (t < rl); c += (lo < t);
mum_c(q, t, lo) == (IF Less(t, q.rl) THEN 1 ELSE 0) + (IF Less(lo, t) THEN 1 ELSE 0)

\* hi = rh + (rm0 >> 32U) + (rm1 >> 32U) + c;
mum_hi(q, c) == Add(Add(Add(q.rh, Shr(q.rm0, 4)), Shr(q.rm1, 4)), U64(c))

\* *a = lo; *b = hi;
mum_out(q, t, lo) == <<lo, mum_hi(q, mum_c(q, t, lo))>>

mum_sums(q, t) == Apply3(mum_out, q, t, mum_lo(q, t))

mum_from_parts(q) == Apply2(mum_sums, q, mum_t(q))

mum_portable(a, b) == Apply1(mum_from_parts, mum_parts(a, b))

\* return a ^ b, after mum(&a, &b)
fold(m) == Xor(m[1], m[2])

mix(a, b) == Apply1(fold, mum(a, b))

\* key is the byte buffer, p the 0-based offset of the read
r8(key, p) == SubSeq(key, p + 1, p + 8)

r4(key, p) == SubSeq(key, p + 1, p + 4) \o <<0, 0, 0, 0>>

\* an r3 whose last read is one byte past the key
r3_past_end(key, p, k) ==
    Or(Or(Shl(U64(key[p + 1]), 2), Shl(U64(key[p + (k \div 2) + 1]), 1)),
       U64(key[p + k + 1]))

r3(key, p, k) ==
    Or(Or(Shl(U64(key[p + 1]), 2), Shl(U64(key[p + (k \div 2) + 1]), 1)),
       U64(key[p + k]))

\* the do { } while (i > 48) loop: three accumulators per 48-byte block;
\* the state after the loop, p and i included
RECURSIVE wy_loop48(_, _, _, _, _, _)
wy_loop48(key, p, i, seed, see1, see2) ==
    IF i - 48 > 48
    THEN wy_loop48(key, p + 48, i - 48,
                   mix(Xor(r8(key, p), secret1), Xor(r8(key, p + 8), seed)),
                   mix(Xor(r8(key, p + 16), secret2), Xor(r8(key, p + 24), see1)),
                   mix(Xor(r8(key, p + 32), secret3), Xor(r8(key, p + 40), see2)))
    ELSE [p |-> p + 48, i |-> i - 48,
          seed |-> mix(Xor(r8(key, p), secret1), Xor(r8(key, p + 8), seed)),
          see1 |-> mix(Xor(r8(key, p + 16), secret2), Xor(r8(key, p + 24), see1)),
          see2 |-> mix(Xor(r8(key, p + 32), secret3), Xor(r8(key, p + 40), see2))]

\* a combination that leaves out the third accumulator
wy_combine_no_see2(w) == [p |-> w.p, i |-> w.i, seed |-> Xor(w.seed, w.see1)]

\* seed ^= see1 ^ see2
wy_combine(w) == [p |-> w.p, i |-> w.i, seed |-> Xor(w.seed, Xor(w.see1, w.see2))]

\* the if (i > 48) block
wy_blocks(key, len) ==
    IF len > 48
    THEN Apply1(wy_combine, wy_loop48(key, 0, len, secret0, secret0, secret0))
    ELSE [p |-> 0, i |-> len, seed |-> secret0]

\* the while (i > 16) loop
RECURSIVE wy_loop16(_, _, _, _)
wy_loop16_from(key, at, seed) == wy_loop16(key, at.p, at.i, seed)

wy_loop16(key, p, i, seed) ==
    IF i > 16
    THEN Apply3(wy_loop16_from, key, [p |-> p + 16, i |-> i - 16],
                mix(Xor(r8(key, p), secret1), Xor(r8(key, p + 8), seed)))
    ELSE [p |-> p, i |-> i, seed |-> seed]

wy_strides(key, w) == wy_loop16(key, w.p, w.i, w.seed)

\* a = r8(p + i - 16); b = r8(p + i - 8);
wy_tail(key, w) ==
    [a |-> r8(key, w.p + w.i - 16), b |-> r8(key, w.p + w.i - 8), seed |-> w.seed]

\* a middle offset computed as (len >> 4) << 2
wy_mid_shift4(len) == (len \div 16) * 4

\* (len >> 3) << 2
wy_mid(len) == (len \div 8) * 4

\* the lanes a, b and the seed that wyhash::hash feeds to its final mix
wy_lanes(key, len) ==
    IF len <= 16
    THEN IF len >= 4
         THEN [a |-> Or(Shl(r4(key, 0), 4), r4(key, wy_mid(len))),
               b |-> Or(Shl(r4(key, len - 4), 4), r4(key, len - 4 - wy_mid(len))),
               seed |-> secret0]
         ELSE IF len > 0
         THEN [a |-> r3(key, 0, len), b |-> U64(0), seed |-> secret0]
         ELSE [a |-> U64(0), b |-> U64(0), seed |-> secret0]
    ELSE Apply2(wy_tail, key, Apply2(wy_strides, key, wy_blocks(key, len)))

\* a final mix keyed by the count i left after the stride loops instead of len
wy_finish_remaining(len, l) ==
    mix(Xor(secret1, U64(IF len > 16 THEN ((len - 1) % 16) + 1 ELSE len)),
        mix(Xor(l.a, secret1), Xor(l.b, l.seed)))

\* return mix(secret[1] ^ len, mix(a ^ secret[1], b ^ seed));
wy_finish(len, l) ==
    mix(Xor(secret1, U64(len)), mix(Xor(l.a, secret1), Xor(l.b, l.seed)))

\* wyhash::hash(void const* key, std::size_t len)
wyhash_hash(key, len) == Apply2(wy_finish, len, wy_lanes(key, len))

\* wyhash::hash(std::uint64_t x)
\* the integer hash keyed by the first secret instead of its own constant
wyhash_hash_u64_secret(x) == mix(x, secret0)

wyhash_hash_u64(x) == mix(x, golden)

\* WyhashStringView::operator()(std::string_view sv)
WyhashStringView(sv) == Apply2(wyhash_hash, sv, Len(sv))

(***************************************************************************)
(* FNV-1a (verstable_wrapper.c, str_hash) and str_cmpr.                    *)
(***************************************************************************)
fnv_offset == <<37, 35, 34, 132, 228, 156, 242, 203>>  \* 14695981039346656037
fnv_prime  == <<179, 1, 0, 0, 0, 1, 0, 0>>             \* 1099511628211

\* a str_key is [ptr |-> the caller's byte buffer, len |-> the length passed]
RECURSIVE str_hash_from(_, _, _)
str_hash_from(key, i, hash) ==
    IF i < key.len
    THEN Apply3(str_hash_from, key, i + 1,
                MulLow(Xor(hash, U64(key.ptr[i + 1])), fnv_prime))
    ELSE hash

\* uint64_t hash = 14695981039346656037ULL; for (size_t i = 0; ...
str_hash_from_start(key, hash) == str_hash_from(key, 0, hash)

str_hash(key) == Apply2(str_hash_from_start, key, fnv_offset)

\* a comparison of the pointers in place of the bytes
str_cmpr_pointers(a, b) == a.len = b.len /\ a.ptr = b.ptr

str_cmpr(a, b) ==
    IF a.len /= b.len THEN FALSE
    ELSE \A i \in 1..a.len : a.ptr[i] = b.ptr[i]

(***************************************************************************)
(* Values.  A caller's value buffer is a byte sequence; a Val4 holds the   *)
(* first 4 bytes of it.                                                    *)
(***************************************************************************)
Val4Size == 4
Val64Size == 64
Val256Size == 256

\* a copy that stops one byte short and leaves the last byte zero
memcpy_short(val, val_size) == SubSeq(val, 1, val_size - 1) \o <<0>>

\* a copy of the caller's whole buffer, whatever the value width
memcpy_whole(val, val_size) == val

\* std::memcpy(v.data, val, val_size)
memcpy(val, val_size) == SubSeq(val, 1, val_size)

NULL == -1

(***************************************************************************)
(* The C++ containers (absl flat_hash, boost unordered_flat and ankerl     *)
(* unordered_dense sets and maps).  The libraries are not part of the      *)
(* wrappers; they are modelled by the standard associative-container       *)
(* contract the wrappers rely on.  A container is a dense array of entries *)
(* and an element count; an iterator is a position, end() is one past the  *)
(* last entry.                                                             *)
(***************************************************************************)
lib_new == [elems |-> <<>>, count |-> 0]

lib_begin(m) == 1

lib_end(m) == Len(m.elems) + 1

lib_find(m, key) ==
    IF \E i \in 1..Len(m.elems) : m.elems[i].key = key
    THEN CHOOSE i \in 1..Len(m.elems) : m.elems[i].key = key
    ELSE lib_end(m)

\* insert: no effect when the key is there
lib_insert(m, key, v) ==
    IF lib_find(m, key) /= lib_end(m)
    THEN [m |-> m, it |-> lib_find(m, key), inserted |-> FALSE]
    ELSE [m |-> [elems |-> Append(m.elems, [key |-> key, val |-> v]),
                 count |-> m.count + 1],
          it |-> Len(m.elems) + 1, inserted |-> TRUE]

\* insert_or_assign: assigns the mapped value when the key is there
lib_assign_at(m, key, v, i) ==
    IF i /= lib_end(m)
    THEN [m |-> [m EXCEPT !.elems[i].val = v], it |-> i, inserted |-> FALSE]
    ELSE lib_insert(m, key, v)

lib_insert_or_assign(m, key, v) == lib_assign_at(m, key, v, lib_find(m, key))

\* erase(key): the number of elements removed; the last entry fills the hole
lib_erase_at(m, i, n) ==
    IF i = lib_end(m)
    THEN [m |-> m, n |-> 0]
    ELSE [m |-> [elems |-> [j \in 1..(n - 1) |->
                               IF j = i THEN m.elems[n] ELSE m.elems[j]],
                 count |-> m.count - 1],
          n |-> 1]

lib_erase(m, key) == lib_erase_at(m, lib_find(m, key), Len(m.elems))

lib_size(m) == m.count

\* std::string_view(key, len): the len bytes at key, compared by content
string_view(key, len) == SubSeq(key, 1, len)

(***************************************************************************)
(* cpp_hashtables_wrapper.cpp: the four wrapper macros.  Each operator     *)
(* returns [m |-> the table afterwards, ret |-> the value returned].       *)
(***************************************************************************)
\* for (auto it = m->begin(); it != m->end(); ++it) count++;
RECURSIVE iter_loop(_, _, _)
iter_loop(m, it, count) ==
    IF it /= lib_end(m) THEN iter_loop(m, it + 1, count + 1) ELSE count

\* return inserted ? 1 : 0;
ret_inserted(r) == [m |-> r.m, ret |-> IF r.inserted THEN 1 ELSE 0]

\* return 1;
ret_one(r) == [m |-> r.m, ret |-> 1]

\* an erase that reports success whatever erase returned
ret_erased_always(r) == [m |-> r.m, ret |-> 1]

\* return m->erase(key) > 0 ? 1 : 0;
ret_erased(r) == [m |-> r.m, ret |-> IF r.n > 0 THEN 1 ELSE 0]

\* if (it == m->end()) return nullptr; return it->second.data;
ret_data(m, it) == [m |-> m, ret |-> IF it = lib_end(m) THEN nullptr ELSE m.elems[it].val]

\* DEFINE_INT_SET_WRAPPERS
cpp_int_set_init == [m |-> lib_new, ret |-> None]

cpp_int_set_cleanup(m) == Destroyed

cpp_int_set_insert(m, key) == Apply1(ret_inserted, lib_insert(m, key, None))

cpp_int_set_get(m, key) ==
    [m |-> m, ret |-> IF lib_find(m, key) /= lib_end(m) THEN 1 ELSE 0]

cpp_int_set_erase(m, key) == Apply1(ret_erased, lib_erase(m, key))

cpp_int_set_size(m) == [m |-> m, ret |-> lib_size(m)]

cpp_int_set_iter_count(m) == [m |-> m, ret |-> iter_loop(m, lib_begin(m), 0)]

\* DEFINE_INT_MAP_WRAPPERS
cpp_int_map_init == [m |-> lib_new, ret |-> None]

cpp_int_map_cleanup(m) == Destroyed

\* an insert written with insert, which keeps the value of a key already stored
cpp_int_map_insert_keep(m, key, val, val_size) ==
    Apply1(ret_one, lib_insert(m, key, memcpy(val, val_size)))

cpp_int_map_insert(m, key, val, val_size) ==
    Apply1(ret_one, lib_insert_or_assign(m, key, memcpy(val, val_size)))

\* a get written with operator[], which stores a zeroed value under a missing key
cpp_int_map_get_subscript(m, key) ==
    [m |-> lib_insert(m, key, <<0, 0, 0, 0>>).m,
     ret |-> lib_insert(m, key, <<0, 0, 0, 0>>).m.elems[lib_insert(m, key, <<0, 0, 0, 0>>).it].val]

cpp_int_map_get(m, key) == Apply2(ret_data, m, lib_find(m, key))

cpp_int_map_erase(m, key) == Apply1(ret_erased, lib_erase(m, key))

cpp_int_map_size(m) == [m |-> m, ret |-> lib_size(m)]

\* a loop whose count starts at 1
cpp_int_map_iter_count_from_one(m) == [m |-> m, ret |-> iter_loop(m, lib_begin(m), 1)]

cpp_int_map_iter_count(m) == [m |-> m, ret |-> iter_loop(m, lib_begin(m), 0)]

\* DEFINE_STR_SET_WRAPPERS
cpp_str_set_init == [m |-> lib_new, ret |-> None]

cpp_str_set_cleanup(m) == Destroyed

cpp_str_set_insert(m, key, len) == Apply1(ret_inserted, lib_insert(m, string_view(key, len), None))

cpp_str_set_get(m, key, len) ==
    [m |-> m,
     ret |-> IF lib_find(m, string_view(key, len)) /= lib_end(m) THEN 1 ELSE 0]

cpp_str_set_erase(m, key, len) == Apply1(ret_erased, lib_erase(m, string_view(key, len)))

cpp_str_set_size(m) == [m |-> m, ret |-> lib_size(m)]

cpp_str_set_iter_count(m) == [m |-> m, ret |-> iter_loop(m, lib_begin(m), 0)]

\* DEFINE_STR_MAP_WRAPPERS
cpp_str_map_init == [m |-> lib_new, ret |-> None]

cpp_str_map_cleanup(m) == Destroyed

cpp_str_map_insert(m, key, len, val, val_size) ==
    Apply1(ret_one, lib_insert_or_assign(m, string_view(key, len), memcpy(val, val_size)))

cpp_str_map_get(m, key, len) == Apply2(ret_data, m, lib_find(m, string_view(key, len)))

cpp_str_map_erase(m, key, len) == Apply1(ret_erased, lib_erase(m, string_view(key, len)))

cpp_str_map_size(m) == [m |-> m, ret |-> lib_size(m)]

cpp_str_map_iter_count(m) == [m |-> m, ret |-> iter_loop(m, lib_begin(m), 0)]

(***************************************************************************)
(* The keys the calls are made with.  Key number i is the integer i on an  *)
(* integer-keyed table and the byte span (StrBuf(i), StrLen(i)) on a       *)
(* string-keyed one: "", "b", "ca", "d", ...  The caller keeps the buffers *)
(* alive and unchanged while a table holds them.                           *)
(***************************************************************************)
MaxKey == 3

Keys == 1..MaxKey

StrBuf(i) == <<96 + i, 97, 98>>
StrLen(i) == IF i = 1 THEN 0 ELSE 1 + (i % 2)

\* key number i as a vt table of that kind stores it
KeyVal(kind, i) == IF kind = "str" THEN [ptr |-> StrBuf(i), len |-> StrLen(i)] ELSE i

(***************************************************************************)
(* Verstable (../Verstable/verstable.h, instantiated by                    *)
(* verstable_wrapper.c lines 41-132).  The header is not among the         *)
(* sources; the table is modelled as the open-addressing table the design  *)
(* describes: a bucket array and a parallel metadata array (empty,         *)
(* tombstone or occupied), a key count and a bucket mask, growing by       *)
(* rehash.  insert replaces an existing key and returns an iterator to it; *)
(* it returns the end iterator only when an allocation fails.              *)
(* Pointers into the two arrays are 0-based indices; NULL is -1.           *)
(***************************************************************************)
VT_EMPTY == 0
VT_TOMBSTONE == 1
VT_OCCUPIED == 2
VT_MIN_BUCKETS == 2

\* x >> n on a 64-bit word, n in bits
ShrSub(y, r) ==
    [i \in 1..8 |-> (y[i] \div (2 ^ r))
                    + (IF i < 8 THEN (y[i + 1] % (2 ^ r)) * (2 ^ (8 - r)) ELSE 0)]

ShrBits(x, n) == ShrSub(Shr(x, n \div 8), n % 8)

vt_hash_mult == <<55, 92, 50, 244, 155, 89, 39, 33>>   \* 0x2127599bf4325c37

\* key ^= key >> n
vt_xorshift(key, n) == Xor(key, ShrBits(key, n))

vt_hash_integer(key) == vt_xorshift(MulLow(vt_xorshift(key, 23), vt_hash_mult), 47)

vt_cmpr_integer(a, b) == a = b

\* the HASH_FN and CMPR_FN of an instantiation: kind is "u64" or "str"
HASH_FN(kind, key) == IF kind = "str" THEN str_hash(key) ELSE vt_hash_integer(U64(key))

CMPR_FN(kind, a, b) == IF kind = "str" THEN str_cmpr(a, b) ELSE vt_cmpr_integer(a, b)

vt_filler == [key |-> None, val |-> None]

vt_internal_init ==
    [key_count |-> 0, buckets_mask |-> 0, buckets |-> <<>>, metadata |-> <<>>]

vt_internal_bucket_count(t) ==
    t.buckets_mask + (IF t.buckets_mask /= 0 THEN 1 ELSE 0)

\* HASH_FN on the keys of the model, computed once: <<key, hash>> pairs
HashesInt == {<<KeyVal("u64", i), HASH_FN("u64", KeyVal("u64", i))>> : i \in Keys}
HashesStr == {<<KeyVal("str", i), HASH_FN("str", KeyVal("str", i))>> : i \in Keys}

hash_of(kind, key) ==
    IF kind = "str"
    THEN IF \E p \in HashesStr : p[1] = key
         THEN (CHOOSE p \in HashesStr : p[1] = key)[2]
         ELSE HASH_FN(kind, key)
    ELSE (CHOOSE p \in HashesInt : p[1] = key)[2]

\* hash & buckets_mask (the mask is below 256)
vt_home(kind, key, mask) == hash_of(kind, key)[1] % (mask + 1)

vt_end_itr == [data |-> NULL, metadatum |-> NULL, metadata_end |-> NULL, home_bucket |-> 0]

vt_itr_at(t, b, home) ==
    [data |-> b, metadatum |-> b,
     metadata_end |-> vt_internal_bucket_count(t), home_bucket |-> home]

vt_internal_is_end(itr) == itr.metadatum = itr.metadata_end

RECURSIVE vt_lookup(_, _, _, _, _)
vt_lookup(t, kind, key, b, n) ==
    IF n = 0 THEN NULL
    ELSE IF t.metadata[b + 1] = VT_EMPTY THEN NULL
    ELSE IF t.metadata[b + 1] = VT_OCCUPIED /\ CMPR_FN(kind, t.buckets[b + 1].key, key)
    THEN b
    ELSE vt_lookup(t, kind, key, (b + 1) % vt_internal_bucket_count(t), n - 1)

vt_find(t, kind, key) ==
    vt_lookup(t, kind, key, vt_home(kind, key, t.buckets_mask),
              vt_internal_bucket_count(t))

RECURSIVE vt_free_from(_, _)
vt_free_from(t, b) ==
    IF t.metadata[b + 1] /= VT_OCCUPIED THEN b
    ELSE vt_free_from(t, (b + 1) % vt_internal_bucket_count(t))

vt_store(t, key, val, b, home) ==
    [t |-> [t EXCEPT !.buckets[b + 1] = [key |-> key, val |-> val],
                     !.metadata[b + 1] = VT_OCCUPIED,
                     !.key_count = @ + 1],
     b |-> b, home |-> home]

vt_place_from(t, key, val, home) == vt_store(t, key, val, vt_free_from(t, home), home)

\* store a key that is not in the table in the first free bucket of its probe
vt_place(t, kind, key, val) ==
    vt_place_from(t, key, val, vt_home(kind, key, t.buckets_mask))

vt_empty_table(count) ==
    [key_count |-> 0, buckets_mask |-> count - 1,
     buckets |-> [i \in 1..count |-> vt_filler],
     metadata |-> [i \in 1..count |-> VT_EMPTY]]

RECURSIVE vt_reinsert(_, _, _, _)
vt_reinsert(src, dst, kind, i) ==
    IF i > Len(src.metadata) THEN dst
    ELSE vt_reinsert(src,
                     IF src.metadata[i] = VT_OCCUPIED
                     THEN vt_place(dst, kind, src.buckets[i].key, src.buckets[i].val).t
                     ELSE dst,
                     kind, i + 1)

vt_rehash(t, kind, count) == vt_reinsert(t, vt_empty_table(count), kind, 1)

\* the smallest bucket count, a power of two, that holds n keys at 3/4 load
RECURSIVE vt_grow_to(_, _)
vt_grow_to(n, count) == IF n * 4 <= count * 3 THEN count ELSE vt_grow_to(n, 2 * count)

vt_used(t) == Cardinality({i \in 1..Len(t.metadata) : t.metadata[i] /= VT_EMPTY})

\* the table and the iterator after a key was stored
vt_placed(r) == [t |-> r.t, itr |-> vt_itr_at(r.t, r.b, r.home)]

\* insert, b being the bucket of the key or NULL
vt_insert_at(t, kind, key, val, alloc_ok, b) ==
    IF b /= NULL
    THEN [t |-> [t EXCEPT !.buckets[b + 1] = [key |-> key, val |-> val]],
          itr |-> vt_itr_at(t, b, vt_home(kind, key, t.buckets_mask))]
    ELSE IF (vt_used(t) + 1) * 4 <= vt_internal_bucket_count(t) * 3
    THEN vt_placed(vt_place(t, kind, key, val))
    ELSE IF ~alloc_ok
    THEN [t |-> t, itr |-> vt_end_itr]
    ELSE vt_placed(vt_place(
             vt_rehash(t, kind, vt_grow_to(t.key_count + 1, VT_MIN_BUCKETS)),
             kind, key, val))

\* alloc_ok: whether the allocation of a rehash, if one is needed, succeeds
vt_internal_insert(t, kind, key, val, alloc_ok) ==
    CHOOSE r \in {vt_insert_at(t, kind, key, val, alloc_ok, b) :
                     b \in {vt_find(t, kind, key)}} : TRUE

vt_get_at(t, kind, key, b) ==
    IF b = NULL THEN vt_end_itr
    ELSE vt_itr_at(t, b, vt_home(kind, key, t.buckets_mask))

vt_internal_get(t, kind, key) ==
    CHOOSE r \in {vt_get_at(t, kind, key, b) : b \in {vt_find(t, kind, key)}} : TRUE

vt_erase_at(t, b) ==
    IF b = NULL THEN [t |-> t, erased |-> FALSE]
    ELSE [t |-> [t EXCEPT !.metadata[b + 1] = VT_TOMBSTONE,
                          !.key_count = @ - 1],
          erased |-> TRUE]

vt_internal_erase(t, kind, key) == Apply2(vt_erase_at, t, vt_find(t, kind, key))

vt_internal_size(t) == t.key_count

\* advance to the next occupied bucket or to metadata_end
RECURSIVE vt_fast_forward(_, _)
vt_fast_forward(t, itr) ==
    IF itr.metadatum = itr.metadata_end THEN itr
    ELSE IF t.metadata[itr.metadatum + 1] = VT_OCCUPIED THEN itr
    ELSE vt_fast_forward(t, [itr EXCEPT !.data = @ + 1, !.metadatum = @ + 1])

vt_internal_first(t) ==
    IF t.key_count = 0 THEN vt_end_itr
    ELSE vt_fast_forward(t, vt_itr_at(t, 0, 0))

\* a next that does not step off the bucket it is on
vt_internal_next_stay(t, itr) == vt_fast_forward(t, itr)

\* t is the memory the iterator points into
vt_internal_next(t, itr) ==
    vt_fast_forward(t, [itr EXCEPT !.data = @ + 1, !.metadatum = @ + 1])

(***************************************************************************)
(* verstable_wrapper.c: the four wrapper macros.  table is the caller's    *)
(* vt_generic_map; alloc_ok is the outcome of the allocation a growing     *)
(* insert makes.  Operators that return a value return                     *)
(* [m |-> the table afterwards, ret |-> the value returned].               *)
(***************************************************************************)
\* a copy that puts metadata_end where metadatum belongs
to_generic_end_first(itr) ==
    [itr_data |-> itr.data, metadatum |-> itr.metadata_end,
     metadata_end |-> itr.metadata_end, home_bucket |-> itr.home_bucket]

\* vt_generic_iter result = { itr.data, itr.metadatum, itr.metadata_end, itr.home_bucket }
to_generic(itr) ==
    [itr_data |-> itr.data, metadatum |-> itr.metadatum,
     metadata_end |-> itr.metadata_end, home_bucket |-> itr.home_bucket]

\* internal_name##_itr itr = { iter.itr_data, iter.metadatum, iter.metadata_end, iter.home_bucket }
from_generic(iter) ==
    [data |-> iter.itr_data, metadatum |-> iter.metadatum,
     metadata_end |-> iter.metadata_end, home_bucket |-> iter.home_bucket]

\* return !internal_name##_is_end(itr);
ret_not_end(r) == [m |-> r.t, ret |-> IF vt_internal_is_end(r.itr) THEN 0 ELSE 1]

\* an erase with the two results exchanged
ret_vt_erased_inverted(r) == [m |-> r.t, ret |-> IF r.erased THEN 0 ELSE 1]

\* return internal_name##_erase(table, key) ? 1 : 0;
ret_vt_erased(r) == [m |-> r.t, ret |-> IF r.erased THEN 1 ELSE 0]

\* if (internal_name##_is_end(itr)) return NULL; return itr.data->val.data;
ret_vt_data(table, itr) ==
    [m |-> table,
     ret |-> IF vt_internal_is_end(itr) THEN nullptr ELSE table.buckets[itr.data + 1].val]

\* return !internal_name##_is_end(itr); for a get
ret_vt_found(table, itr) == [m |-> table, ret |-> IF vt_internal_is_end(itr) THEN 0 ELSE 1]

\* str_key k = { key, len };
str_key(key, len) == [ptr |-> key, len |-> len]

\* DEFINE_INT_SET_WRAPPERS
vt_int_set_init == [m |-> vt_internal_init, ret |-> None]

vt_int_set_cleanup(table) == Destroyed

vt_int_set_insert(table, key, alloc_ok) ==
    Apply1(ret_not_end, vt_internal_insert(table, "u64", key, None, alloc_ok))

vt_int_set_get(table, key) ==
    Apply2(ret_vt_found, table, vt_internal_get(table, "u64", key))

vt_int_set_erase(table, key) ==
    Apply1(ret_vt_erased, vt_internal_erase(table, "u64", key))

vt_int_set_size(table) == [m |-> table, ret |-> vt_internal_size(table)]

vt_int_set_first(table) == to_generic(vt_internal_first(table))

\* an end test that already holds on the last bucket
vt_int_set_is_end_early(iter) == IF iter.metadatum + 1 >= iter.metadata_end THEN 1 ELSE 0

vt_int_set_is_end(iter) == IF iter.metadatum = iter.metadata_end THEN 1 ELSE 0

vt_int_set_next(table, iter) == to_generic(vt_internal_next(table, from_generic(iter)))

\* DEFINE_INT_MAP_WRAPPERS
\* an init that leaves key_count as it found it, here 1
vt_int_map_init_stale == [m |-> [vt_internal_init EXCEPT !.key_count = 1], ret |-> None]

vt_int_map_init == [m |-> vt_internal_init, ret |-> None]

vt_int_map_cleanup(table) == Destroyed

vt_int_map_insert(table, key, val, val_size, alloc_ok) ==
    Apply1(ret_not_end, vt_internal_insert(table, "u64", key,
                                   memcpy(val, val_size), alloc_ok))

vt_int_map_get(table, key) ==
    Apply2(ret_vt_data, table, vt_internal_get(table, "u64", key))

vt_int_map_erase(table, key) ==
    Apply1(ret_vt_erased, vt_internal_erase(table, "u64", key))

\* a size that reports the bucket count
vt_int_map_size_buckets(table) == [m |-> table, ret |-> vt_internal_bucket_count(table)]

vt_int_map_size(table) == [m |-> table, ret |-> vt_internal_size(table)]

vt_int_map_first(table) == to_generic(vt_internal_first(table))

vt_int_map_is_end(iter) == IF iter.metadatum = iter.metadata_end THEN 1 ELSE 0

vt_int_map_next(table, iter) == to_generic(vt_internal_next(table, from_generic(iter)))

\* DEFINE_STR_SET_WRAPPERS
vt_str_set_init == [m |-> vt_internal_init, ret |-> None]

vt_str_set_cleanup(table) == Destroyed

vt_str_set_insert(table, key, len, alloc_ok) ==
    Apply1(ret_not_end, vt_internal_insert(table, "str", str_key(key, len), None, alloc_ok))

vt_str_set_get(table, key, len) ==
    Apply2(ret_vt_found, table, vt_internal_get(table, "str", str_key(key, len)))

vt_str_set_erase(table, key, len) ==
    Apply1(ret_vt_erased, vt_internal_erase(table, "str", str_key(key, len)))

vt_str_set_size(table) == [m |-> table, ret |-> vt_internal_size(table)]

vt_str_set_first(table) == to_generic(vt_internal_first(table))

vt_str_set_is_end(iter) == IF iter.metadatum = iter.metadata_end THEN 1 ELSE 0

vt_str_set_next(table, iter) == to_generic(vt_internal_next(table, from_generic(iter)))

\* DEFINE_STR_MAP_WRAPPERS
vt_str_map_init == [m |-> vt_internal_init, ret |-> None]

vt_str_map_cleanup(table) == Destroyed

vt_str_map_insert(table, key, len, val, val_size, alloc_ok) ==
    Apply1(ret_not_end, vt_internal_insert(table, "str", str_key(key, len),
                                   memcpy(val, val_size), alloc_ok))

vt_str_map_get(table, key, len) ==
    Apply2(ret_vt_data, table, vt_internal_get(table, "str", str_key(key, len)))

vt_str_map_erase(table, key, len) ==
    Apply1(ret_vt_erased, vt_internal_erase(table, "str", str_key(key, len)))

vt_str_map_size(table) == [m |-> table, ret |-> vt_internal_size(table)]

vt_str_map_first(table) == to_generic(vt_internal_first(table))

vt_str_map_is_end(iter) == IF iter.metadatum = iter.metadata_end THEN 1 ELSE 0

vt_str_map_next(table, iter) == to_generic(vt_internal_next(table, from_generic(iter)))

(***************************************************************************)
(* The instantiations and the calls made on them.  One key and value kind  *)
(* is under test at a time (cfg); the same call is made on the absl,       *)
(* boost, ankerl and vt table of that kind.                                *)
(***************************************************************************)
MaxCount == 2    \* at most MaxCount inserts of an absent key between creates

Backends == {"absl", "boost", "ankerl", "vt"}
CppBackends == {"absl", "boost", "ankerl"}
Configs == [key : {"u64", "str"}, val : {"void", "val4"}]
\* the caller's buffers: value buffers are one byte longer than a Val4
ValBufs == {<<65, 1, 2, 3, 250>>, <<67, 1, 2, 3, 251>>}
ValArgs(c) == IF c.val = "void" THEN {None} ELSE ValBufs

call_init(b, c) ==
    IF b = "vt"
    THEN IF c.key = "u64"
         THEN (IF c.val = "void" THEN vt_int_set_init ELSE vt_int_map_init)
         ELSE (IF c.val = "void" THEN vt_str_set_init ELSE vt_str_map_init)
    ELSE IF c.key = "u64"
         THEN (IF c.val = "void" THEN cpp_int_set_init ELSE cpp_int_map_init)
         ELSE (IF c.val = "void" THEN cpp_str_set_init ELSE cpp_str_map_init)

call_cleanup(b, c, t) ==
    IF b = "vt"
    THEN IF c.key = "u64"
         THEN (IF c.val = "void" THEN vt_int_set_cleanup(t) ELSE vt_int_map_cleanup(t))
         ELSE (IF c.val = "void" THEN vt_str_set_cleanup(t) ELSE vt_str_map_cleanup(t))
    ELSE IF c.key = "u64"
         THEN (IF c.val = "void" THEN cpp_int_set_cleanup(t) ELSE cpp_int_map_cleanup(t))
         ELSE (IF c.val = "void" THEN cpp_str_set_cleanup(t) ELSE cpp_str_map_cleanup(t))

call_insert(b, c, t, i, val, alloc_ok) ==
    IF b = "vt"
    THEN IF c.key = "u64"
         THEN (IF c.val = "void"
               THEN vt_int_set_insert(t, i, alloc_ok)
               ELSE vt_int_map_insert(t, i, val, Val4Size, alloc_ok))
         ELSE (IF c.val = "void"
               THEN vt_str_set_insert(t, StrBuf(i), StrLen(i), alloc_ok)
               ELSE vt_str_map_insert(t, StrBuf(i), StrLen(i), val, Val4Size, alloc_ok))
    ELSE IF c.key = "u64"
         THEN (IF c.val = "void"
               THEN cpp_int_set_insert(t, i)
               ELSE cpp_int_map_insert(t, i, val, Val4Size))
         ELSE (IF c.val = "void"
               THEN cpp_str_set_insert(t, StrBuf(i), StrLen(i))
               ELSE cpp_str_map_insert(t, StrBuf(i), StrLen(i), val, Val4Size))

call_get(b, c, t, i) ==
    IF b = "vt"
    THEN IF c.key = "u64"
         THEN (IF c.val = "void" THEN vt_int_set_get(t, i) ELSE vt_int_map_get(t, i))
         ELSE (IF c.val = "void"
               THEN vt_str_set_get(t, StrBuf(i), StrLen(i))
               ELSE vt_str_map_get(t, StrBuf(i), StrLen(i)))
    ELSE IF c.key = "u64"
         THEN (IF c.val = "void" THEN cpp_int_set_get(t, i) ELSE cpp_int_map_get(t, i))
         ELSE (IF c.val = "void"
               THEN cpp_str_set_get(t, StrBuf(i), StrLen(i))
               ELSE cpp_str_map_get(t, StrBuf(i), StrLen(i)))

call_erase(b, c, t, i) ==
    IF b = "vt"
    THEN IF c.key = "u64"
         THEN (IF c.val = "void" THEN vt_int_set_erase(t, i) ELSE vt_int_map_erase(t, i))
         ELSE (IF c.val = "void"
               THEN vt_str_set_erase(t, StrBuf(i), StrLen(i))
               ELSE vt_str_map_erase(t, StrBuf(i), StrLen(i)))
    ELSE IF c.key = "u64"
         THEN (IF c.val = "void" THEN cpp_int_set_erase(t, i) ELSE cpp_int_map_erase(t, i))
         ELSE (IF c.val = "void"
               THEN cpp_str_set_erase(t, StrBuf(i), StrLen(i))
               ELSE cpp_str_map_erase(t, StrBuf(i), StrLen(i)))

call_size(b, c, t) ==
    IF b = "vt"
    THEN IF c.key = "u64"
         THEN (IF c.val = "void" THEN vt_int_set_size(t) ELSE vt_int_map_size(t))
         ELSE (IF c.val = "void" THEN vt_str_set_size(t) ELSE vt_str_map_size(t))
    ELSE IF c.key = "u64"
         THEN (IF c.val = "void" THEN cpp_int_set_size(t) ELSE cpp_int_map_size(t))
         ELSE (IF c.val = "void" THEN cpp_str_set_size(t) ELSE cpp_str_map_size(t))

\* C++ tables only
call_iter_count(c, t) ==
    IF c.key = "u64"
    THEN (IF c.val = "void" THEN cpp_int_set_iter_count(t) ELSE cpp_int_map_iter_count(t))
    ELSE (IF c.val = "void" THEN cpp_str_set_iter_count(t) ELSE cpp_str_map_iter_count(t))

\* vt tables only
call_first(c, t) ==
    IF c.key = "u64"
    THEN (IF c.val = "void" THEN vt_int_set_first(t) ELSE vt_int_map_first(t))
    ELSE (IF c.val = "void" THEN vt_str_set_first(t) ELSE vt_str_map_first(t))

call_is_end(c, iter) ==
    IF c.key = "u64"
    THEN (IF c.val = "void" THEN vt_int_set_is_end(iter) ELSE vt_int_map_is_end(iter))
    ELSE (IF c.val = "void" THEN vt_str_set_is_end(iter) ELSE vt_str_map_is_end(iter))

call_next(c, t, iter) ==
    IF c.key = "u64"
    THEN (IF c.val = "void" THEN vt_int_set_next(t, iter) ELSE vt_int_map_next(t, iter))
    ELSE (IF c.val = "void" THEN vt_str_set_next(t, iter) ELSE vt_str_map_next(t, iter))

(***************************************************************************)
(* What a caller observes of a table.                                      *)
(***************************************************************************)
Present(b, c, t, i) ==
    LET r == call_get(b, c, t, i).ret
    IN  IF c.val = "void" THEN r = 1 ELSE r /= nullptr

PresentKeys(b, c, t) == {i \in Keys : Present(b, c, t, i)}

\* the bytes a get of key i must return after insert(i, val): the first Val4Size of val
Expect(c, val) == IF c.val = "void" THEN <<"in">> ELSE [j \in 1..Val4Size |-> val[j]]

\* the key in the bucket a cursor is on
KeyAt(t, iter) == t.buckets[iter.itr_data + 1].key

\* a full traversal: first, then next until is_end; the keys visited, in order
RECURSIVE vt_walk(_, _, _, _)
vt_walk(c, t, iter, acc) ==
    IF call_is_end(c, iter) = 1 THEN acc
    ELSE vt_walk(c, t, call_next(c, t, iter), Append(acc, KeyAt(t, iter)))

vt_traverse(c, t) == vt_walk(c, t, call_first(c, t), <<>>)

\* the count a full traversal of backend b's table produces
TraversalCount(b, c, t) ==
    IF b = "vt" THEN Len(vt_traverse(c, t)) ELSE call_iter_count(c, t).ret

(***************************************************************************)
(* The calls.                                                              *)
(***************************************************************************)
Live == \A b \in Backends : tbl[b] /= Destroyed

\* no call of the hash engine yet; the scratch buffer unused; no allocation failure
NoCall == [called |-> FALSE]
NoScratch == [key |-> 0, dirty |-> FALSE]
NoOom == [b \in Backends |-> "none"]
NoLayout == [b \in CppBackends |-> [buckets |-> 0, self |-> 0]]

Idle ==
    /\ wy = NoCall
    /\ mm = NoCall
    /\ scratch = NoScratch
    /\ oom = NoOom
    /\ lay = NoLayout
    /\ probe = NoCall

NoRet == [b \in Backends |-> None]

NoHash == [b \in Backends |-> <<>>]

Fresh(c) ==
    /\ tbl = [b \in Backends |-> call_init(b, c).m]
    /\ old = [b \in Backends |-> Destroyed]
    /\ op = [name |-> "init", key |-> 0, val |-> None]
    /\ ret = NoRet
    /\ hist = [i \in Keys |-> NoVal]
    /\ nins = [b \in Backends |-> 0]
    /\ ners = [b \in Backends |-> 0]
    /\ cur = NoCursor
    /\ seen = <<>>

Init ==
    /\ cfg \in Configs
    /\ Fresh(cfg)
    /\ hkey = <<>>
    /\ hres = NoHash
    /\ Idle

Create ==
    /\ ~Live
    /\ tbl' = [b \in Backends |-> call_init(b, cfg).m]
    /\ old' = tbl
    /\ op' = [name |-> "init", key |-> 0, val |-> None]
    /\ ret' = NoRet
    /\ UNCHANGED <<cfg, hist, nins, ners, cur, seen, hashVars, wyVars, callerVars>>

Cleanup ==
    /\ Live
    /\ tbl' = [b \in Backends |-> call_cleanup(b, cfg, tbl[b])]
    /\ old' = tbl
    /\ op' = [name |-> "cleanup", key |-> 0, val |-> None]
    /\ ret' = NoRet
    /\ hist' = [i \in Keys |-> NoVal]
    /\ nins' = [b \in Backends |-> 0]
    /\ ners' = [b \in Backends |-> 0]
    /\ cur' = NoCursor
    /\ seen' = <<>>
    /\ UNCHANGED <<cfg, hashVars, wyVars, callerVars>>

Insert(i, val, alloc_ok) ==
    /\ Live
    /\ \/ \A b \in Backends : Present(b, cfg, tbl[b], i)
       \/ \A b \in Backends : nins[b] < MaxCount
    /\ \E r \in {[b \in Backends |-> call_insert(b, cfg, tbl[b], i, val, alloc_ok)]} :
           /\ tbl' = [b \in Backends |-> r[b].m]
           /\ ret' = [b \in Backends |-> r[b].ret]
    /\ old' = tbl
    /\ op' = [name |-> "insert", key |-> i, val |-> val]
    /\ hist' = [hist EXCEPT ![i] = Expect(cfg, val)]
    /\ nins' = [b \in Backends |->
                   IF Present(b, cfg, tbl[b], i) THEN nins[b] ELSE nins[b] + 1]
    /\ cur' = NoCursor
    /\ seen' = <<>>
    /\ UNCHANGED <<cfg, ners, hashVars, wyVars, callerVars>>

Get(i) ==
    /\ Live
    /\ \E r \in {[b \in Backends |-> call_get(b, cfg, tbl[b], i)]} :
           /\ tbl' = [b \in Backends |-> r[b].m]
           /\ ret' = [b \in Backends |-> r[b].ret]
    /\ old' = tbl
    /\ op' = [name |-> "get", key |-> i, val |-> None]
    /\ UNCHANGED <<cfg, hist, nins, ners, cur, seen, hashVars, wyVars, callerVars>>

Erase(i) ==
    /\ Live
    /\ \E r \in {[b \in Backends |-> call_erase(b, cfg, tbl[b], i)]} :
           /\ tbl' = [b \in Backends |-> r[b].m]
           /\ ret' = [b \in Backends |-> r[b].ret]
    /\ old' = tbl
    /\ op' = [name |-> "erase", key |-> i, val |-> None]
    /\ hist' = [hist EXCEPT ![i] = NoVal]
    /\ ners' = [b \in Backends |->
                   IF Present(b, cfg, tbl[b], i) THEN ners[b] + 1 ELSE ners[b]]
    /\ cur' = NoCursor
    /\ seen' = <<>>
    /\ UNCHANGED <<cfg, nins, hashVars, wyVars, callerVars>>

Size ==
    /\ Live
    /\ \E r \in {[b \in Backends |-> call_size(b, cfg, tbl[b])]} :
           /\ tbl' = [b \in Backends |-> r[b].m]
           /\ ret' = [b \in Backends |-> r[b].ret]
    /\ old' = tbl
    /\ op' = [name |-> "size", key |-> 0, val |-> None]
    /\ UNCHANGED <<cfg, hist, nins, ners, cur, seen, hashVars, wyVars, callerVars>>

\* iter_count on the C++ tables
IterCount ==
    /\ Live
    /\ \E r \in {[b \in CppBackends |-> call_iter_count(cfg, tbl[b])]} :
           /\ tbl' = [b \in Backends |-> IF b \in CppBackends THEN r[b].m ELSE tbl[b]]
           /\ ret' = [b \in Backends |-> IF b \in CppBackends THEN r[b].ret ELSE None]
    /\ old' = tbl
    /\ op' = [name |-> "iter_count", key |-> 0, val |-> None]
    /\ UNCHANGED <<cfg, hist, nins, ners, cur, seen, hashVars, wyVars, callerVars>>

\* first on the vt table: a traversal starts
First ==
    /\ Live
    /\ \E c0 \in {call_first(cfg, tbl["vt"])} :
           /\ cur' = c0
           /\ seen' = IF call_is_end(cfg, c0) = 1 THEN <<>> ELSE <<KeyAt(tbl["vt"], c0)>>
    /\ old' = tbl
    /\ op' = [name |-> "first", key |-> 0, val |-> None]
    /\ ret' = NoRet
    /\ UNCHANGED <<cfg, tbl, hist, nins, ners, hashVars, wyVars, callerVars>>

\* next on the cursor of the traversal in progress, while it is not the end cursor
NextCursor ==
    /\ Live
    /\ cur /= NoCursor
    /\ call_is_end(cfg, cur) = 0
    /\ \E c1 \in {call_next(cfg, tbl["vt"], cur)} :
           /\ cur' = c1
           /\ seen' = IF call_is_end(cfg, c1) = 1 THEN seen
                      ELSE Append(seen, KeyAt(tbl["vt"], c1))
    /\ old' = tbl
    /\ op' = [name |-> "next", key |-> 0, val |-> None]
    /\ ret' = NoRet
    /\ UNCHANGED <<cfg, tbl, hist, nins, ners, hashVars, wyVars, callerVars>>

\* the caller writes other bytes into the value buffer it passed to the insert
\* that just returned; no call is made
Reuse(val) ==
    /\ Live
    /\ op.name = "insert"
    /\ cfg.val /= "void"
    /\ val /= op.val
    /\ op' = [name |-> "reuse", key |-> op.key, val |-> val]
    /\ old' = tbl
    /\ ret' = NoRet
    /\ UNCHANGED <<cfg, tbl, hist, nins, ners, cur, seen, hashVars, wyVars, callerVars>>

Next ==
    \/ Create
    \/ Cleanup
    \/ \E i \in Keys : \E val \in ValArgs(cfg) : Insert(i, val, TRUE)
    \/ \E val \in ValBufs : Reuse(val)
    \/ \E i \in Keys : Get(i)
    \/ \E i \in Keys : Erase(i)
    \/ Size
    \/ IterCount
    \/ First
    \/ NextCursor

Spec == Init /\ [][Next]_vars

(***************************************************************************)
(* Keys inserted from a buffer the caller reuses.  A string-keyed table    *)
(* stores std::string_view(key, len) or str_key { key, len }: the pointer  *)
(* and the length, not the bytes.  The bytes a stored key reads are those  *)
(* the caller's buffer holds at the time, so a write to the buffer changes *)
(* the stored key that points into it.  The scratch buffer holds a copy of *)
(* the bytes of key scratch.key until the caller overwrites it; every      *)
(* other call passes the key's own buffer StrBuf(i), which never changes.  *)
(***************************************************************************)
ScratchJunk == <<122, 122, 122>>

\* the entry that points into the scratch buffer reads its new bytes
cpp_alias_at(m, i, it) ==
    IF it = lib_end(m) THEN m
    ELSE [m EXCEPT !.elems[it].key = string_view(ScratchJunk, StrLen(i))]

cpp_alias(m, i) == cpp_alias_at(m, i, lib_find(m, string_view(StrBuf(i), StrLen(i))))

vt_alias_at(t, i, b) ==
    IF b = NULL THEN t
    ELSE [t EXCEPT !.buckets[b + 1].key = str_key(ScratchJunk, StrLen(i))]

vt_alias(t, i) == vt_alias_at(t, i, vt_find(t, "str", str_key(StrBuf(i), StrLen(i))))

\* the key whose stored entry must not be replaced or erased: it is the scratch view
Aliased == IF scratch.dirty THEN {} ELSE {scratch.key}

\* insert of key i, absent so far, with the key pointer into the scratch buffer
InsertScratch(i, val) ==
    /\ Live
    /\ cfg.key = "str"
    /\ scratch = NoScratch
    /\ \A b \in Backends : ~Present(b, cfg, tbl[b], i) /\ nins[b] < MaxCount
    /\ \E r \in {[b \in Backends |-> call_insert(b, cfg, tbl[b], i, val, TRUE)]} :
           /\ tbl' = [b \in Backends |-> r[b].m]
           /\ ret' = [b \in Backends |-> r[b].ret]
    /\ old' = tbl
    /\ op' = [name |-> "insert", key |-> i, val |-> val]
    /\ hist' = [hist EXCEPT ![i] = Expect(cfg, val)]
    /\ nins' = [b \in Backends |-> nins[b] + 1]
    /\ cur' = NoCursor
    /\ seen' = <<>>
    /\ scratch' = [key |-> i, dirty |-> FALSE]
    /\ UNCHANGED <<cfg, ners, hashVars, wyVars, oom, lay, probe>>

\* the caller writes other bytes into the scratch buffer; no call is made
OverwriteScratch ==
    /\ Live
    /\ scratch.key /= 0
    /\ ~scratch.dirty
    /\ tbl' = [b \in Backends |->
                  IF b = "vt" THEN vt_alias(tbl[b], scratch.key)
                  ELSE cpp_alias(tbl[b], scratch.key)]
    /\ old' = tbl
    /\ op' = [name |-> "overwrite", key |-> scratch.key, val |-> None]
    /\ ret' = NoRet
    /\ scratch' = [scratch EXCEPT !.dirty = TRUE]
    /\ UNCHANGED <<cfg, hist, nins, ners, cur, seen, hashVars, wyVars, oom, lay, probe>>

InitKeys == Init /\ cfg.key = "str"

NextKeys ==
    \/ \E i \in Keys : \E val \in ValArgs(cfg) : InsertScratch(i, val)
    \/ OverwriteScratch
    \/ \E i \in Keys \ Aliased : \E val \in ValArgs(cfg) : Insert(i, val, TRUE)
    \/ \E i \in Keys : Get(i)
    \/ \E i \in Keys \ Aliased : Erase(i)
    \/ Size

SpecKeys == InitKeys /\ [][NextKeys]_vars

(***************************************************************************)
(* Allocation failure.  who is the backend whose allocator fails during    *)
(* the call.  A C++ container that cannot allocate throws std::bad_alloc;  *)
(* no wrapper catches it, so it leaves the extern "C" function and the     *)
(* process ends in std::terminate.  Verstable's insert returns the end     *)
(* iterator and leaves the table as it was; its init allocates nothing.    *)
(* oom[b] is how the last allocation failure of backend b ended: "none",   *)
(* "aborted" (the call did not return) or "returned".                      *)
(***************************************************************************)
\* the call does not return and the handle is gone with the process
cpp_terminate == [m |-> Destroyed, ret |-> None]

\* whether an insert of key has to allocate: the key is new and the load is full
vt_needs_alloc(t, kind, key) ==
    /\ vt_find(t, kind, key) = NULL
    /\ (vt_used(t) + 1) * 4 > vt_internal_bucket_count(t) * 3

\* whether the insert of key i requests memory in backend who: a C++ container
\* may have to grow for any new key
Requests(who, i) ==
    IF who = "vt" THEN vt_needs_alloc(tbl[who], cfg.key, KeyVal(cfg.key, i))
    ELSE ~Present(who, cfg, tbl[who], i)

\* insert of key i while the allocator of backend who fails
InsertOom(i, val, who) ==
    /\ Live
    /\ \A b \in Backends : nins[b] < MaxCount
    /\ Requests(who, i)
    /\ \E r \in {[b \in Backends |->
                     IF b /= who THEN call_insert(b, cfg, tbl[b], i, val, TRUE)
                     ELSE IF b = "vt" THEN call_insert(b, cfg, tbl[b], i, val, FALSE)
                     ELSE cpp_terminate]} :
           /\ tbl' = [b \in Backends |-> r[b].m]
           /\ ret' = [b \in Backends |-> r[b].ret]
    /\ old' = tbl
    /\ op' = [name |-> "insert", key |-> i, val |-> val]
    /\ hist' = [hist EXCEPT ![i] = Expect(cfg, val)]
    /\ nins' = [b \in Backends |->
                   IF b = who \/ Present(b, cfg, tbl[b], i) THEN nins[b] ELSE nins[b] + 1]
    /\ cur' = NoCursor
    /\ seen' = <<>>
    /\ oom' = [oom EXCEPT ![who] = IF who = "vt" THEN "returned" ELSE "aborted"]
    /\ UNCHANGED <<cfg, ners, hashVars, wyVars, scratch, lay, probe>>

\* init while the allocator of a C++ backend fails: new throws
CreateOom(who) ==
    /\ ~Live
    /\ who \in CppBackends
    /\ tbl' = [b \in Backends |-> IF b = who THEN cpp_terminate.m ELSE call_init(b, cfg).m]
    /\ old' = tbl
    /\ op' = [name |-> "init", key |-> 0, val |-> None]
    /\ ret' = NoRet
    /\ hist' = [i \in Keys |-> NoVal]
    /\ nins' = [b \in Backends |-> 0]
    /\ ners' = [b \in Backends |-> 0]
    /\ cur' = NoCursor
    /\ seen' = <<>>
    /\ oom' = [NoOom EXCEPT ![who] = "aborted"]
    /\ UNCHANGED <<cfg, hashVars, wyVars, scratch, lay, probe>>

\* the benchmark is started again after a process has ended
Restart ==
    /\ ~Live
    /\ tbl' = [b \in Backends |-> call_init(b, cfg).m]
    /\ old' = tbl
    /\ op' = [name |-> "init", key |-> 0, val |-> None]
    /\ ret' = NoRet
    /\ hist' = [i \in Keys |-> NoVal]
    /\ nins' = [b \in Backends |-> 0]
    /\ ners' = [b \in Backends |-> 0]
    /\ cur' = NoCursor
    /\ seen' = <<>>
    /\ oom' = NoOom
    /\ UNCHANGED <<cfg, hashVars, wyVars, scratch, lay, probe>>

NextAlloc ==
    \/ \E i \in Keys : \E val \in ValArgs(cfg) : \E who \in Backends : InsertOom(i, val, who)
    \/ \E who \in CppBackends : CreateOom(who)
    \/ Restart
    \/ \E i \in Keys : \E val \in ValArgs(cfg) : Insert(i, val, TRUE)
    \/ \E i \in Keys : Get(i)
    \/ \E i \in Keys : Erase(i)
    \/ Size

SpecAlloc == Init /\ [][NextAlloc]_vars

(***************************************************************************)
(* The memory query of the C++ wrappers.  bucket_count() and the sizes of  *)
(* the container object and of its value_type belong to the libraries and  *)
(* the ABI: lay[b].buckets is the bucket count container b has reserved,   *)
(* lay[b].self is sizeof of the container type.  A container reserves      *)
(* buckets when an insert needs more than it has, by a policy of its own   *)
(* (g buckets beyond the need); erase and lookups reserve and release      *)
(* nothing.                                                                *)
(***************************************************************************)
MaxHeadroom == 1
TableSizes == {40, 64}

sizeof_u64 == 8
sizeof_string_view == 16

\* sizeof(std::pair<const K, V>) with K aligned to 8 bytes
sizeof_pair(first, second) == ((first + second + 7) \div 8) * 8

lib_bucket_count(l) == l.buckets

sizeof_table(l) == l.self

lib_reserve(l, count, g) ==
    IF count > l.buckets THEN [l EXCEPT !.buckets = count + g] ELSE l

\* a footprint computed from the element count instead of the bucket count
cpp_int_set_memory_size(m, l) ==
    [m |-> m, ret |-> lib_size(m) * sizeof_u64 + sizeof_table(l)]

\* return m->bucket_count() * sizeof(typename SetType::value_type) + sizeof(SetType);
cpp_int_set_memory(m, l) ==
    [m |-> m, ret |-> lib_bucket_count(l) * sizeof_u64 + sizeof_table(l)]

cpp_int_map_memory(m, l, val_size) ==
    [m |-> m, ret |-> lib_bucket_count(l) * sizeof_pair(sizeof_u64, val_size) + sizeof_table(l)]

cpp_str_set_memory(m, l) ==
    [m |-> m, ret |-> lib_bucket_count(l) * sizeof_string_view + sizeof_table(l)]

cpp_str_map_memory(m, l, val_size) ==
    [m |-> m,
     ret |-> lib_bucket_count(l) * sizeof_pair(sizeof_string_view, val_size) + sizeof_table(l)]

call_memory(c, t, l) ==
    IF c.key = "u64"
    THEN (IF c.val = "void" THEN cpp_int_set_memory(t, l)
          ELSE cpp_int_map_memory(t, l, Val4Size))
    ELSE (IF c.val = "void" THEN cpp_str_set_memory(t, l)
          ELSE cpp_str_map_memory(t, l, Val4Size))

\* insert, with the buckets each C++ container reserves for it
MemInsert(i, val, g) ==
    /\ Live
    /\ \/ \A b \in Backends : Present(b, cfg, tbl[b], i)
       \/ \A b \in Backends : nins[b] < MaxCount
    /\ \E r \in {[b \in Backends |-> call_insert(b, cfg, tbl[b], i, val, TRUE)]} :
           /\ tbl' = [b \in Backends |-> r[b].m]
           /\ ret' = [b \in Backends |-> r[b].ret]
           /\ lay' = [b \in CppBackends |-> lib_reserve(lay[b], lib_size(r[b].m), g)]
    /\ old' = tbl
    /\ op' = [name |-> "insert", key |-> i, val |-> val]
    /\ hist' = [hist EXCEPT ![i] = Expect(cfg, val)]
    /\ nins' = [b \in Backends |->
                   IF Present(b, cfg, tbl[b], i) THEN nins[b] ELSE nins[b] + 1]
    /\ cur' = NoCursor
    /\ seen' = <<>>
    /\ UNCHANGED <<cfg, ners, hashVars, wyVars, scratch, oom, probe>>

\* memory on the C++ tables
Memory ==
    /\ Live
    /\ \E r \in {[b \in CppBackends |-> call_memory(cfg, tbl[b], lay[b])]} :
           /\ tbl' = [b \in Backends |-> IF b \in CppBackends THEN r[b].m ELSE tbl[b]]
           /\ ret' = [b \in Backends |-> IF b \in CppBackends THEN r[b].ret ELSE None]
    /\ old' = tbl
    /\ op' = [name |-> "memory", key |-> 0, val |-> None]
    /\ UNCHANGED <<cfg, hist, nins, ners, cur, seen, hashVars, wyVars, callerVars>>

InitMemory ==
    /\ cfg \in Configs
    /\ Fresh(cfg)
    /\ hkey = <<>>
    /\ hres = NoHash
    /\ wy = NoCall
    /\ mm = NoCall
    /\ scratch = NoScratch
    /\ oom = NoOom
    /\ probe = NoCall
    /\ \E n \in 0..MaxHeadroom : \E s \in TableSizes :
           lay = [b \in CppBackends |-> [buckets |-> n, self |-> s]]

\* the footprint does not involve the values: one value buffer is enough
MemArg(c) == IF c.val = "void" THEN None ELSE <<65, 1, 2, 3, 250>>

NextMemory ==
    \/ \E i \in Keys : \E g \in 0..MaxHeadroom : MemInsert(i, MemArg(cfg), g)
    \/ \E i \in Keys : Erase(i)
    \/ Memory

SpecMemory == InitMemory /\ [][NextMemory]_vars

(***************************************************************************)
(* One traversal of the vt table at a time: first, then next while the     *)
(* cursor is not the end cursor.  An insert or an erase ends the validity  *)
(* of the cursor.  probe counts the calls of next since first and keeps    *)
(* the cursor the last next was called on.  A caller that has started a    *)
(* traversal goes on with it: next is taken as long as it stays possible.  *)
(***************************************************************************)
\* whether next may be called: there is a cursor and it is not the end cursor
MayAdvance == IF cur = NoCursor THEN FALSE ELSE call_is_end(cfg, cur) = 0

TraverseFirst ==
    /\ Live
    /\ ~MayAdvance
    /\ \E c0 \in {call_first(cfg, tbl["vt"])} :
           /\ cur' = c0
           /\ seen' = IF call_is_end(cfg, c0) = 1 THEN <<>> ELSE <<KeyAt(tbl["vt"], c0)>>
    /\ old' = tbl
    /\ op' = [name |-> "first", key |-> 0, val |-> None]
    /\ ret' = NoRet
    /\ probe' = [called |-> TRUE, fn |-> "traverse", steps |-> 0, prev |-> NoCursor]
    /\ UNCHANGED <<cfg, tbl, hist, nins, ners, hashVars, wyVars, scratch, oom, lay>>

TraverseNext ==
    /\ Live
    /\ MayAdvance
    /\ \E c1 \in {call_next(cfg, tbl["vt"], cur)} :
           /\ cur' = c1
           /\ seen' = IF call_is_end(cfg, c1) = 1 THEN seen
                      ELSE Append(seen, KeyAt(tbl["vt"], c1))
    /\ old' = tbl
    /\ op' = [name |-> "next", key |-> 0, val |-> None]
    /\ ret' = NoRet
    /\ probe' = [probe EXCEPT !.steps = @ + 1, !.prev = cur]
    /\ UNCHANGED <<cfg, tbl, hist, nins, ners, hashVars, wyVars, scratch, oom, lay>>

\* insert between traversals; op does not keep the value buffer, which no cursor
\* function reads
TraverseInsert(i) ==
    /\ Live
    /\ \/ \A b \in Backends : Present(b, cfg, tbl[b], i)
       \/ \A b \in Backends : nins[b] < MaxCount
    /\ \E r \in {[b \in Backends |-> call_insert(b, cfg, tbl[b], i, MemArg(cfg), TRUE)]} :
           /\ tbl' = [b \in Backends |-> r[b].m]
           /\ ret' = [b \in Backends |-> r[b].ret]
    /\ old' = tbl
    /\ op' = [name |-> "insert", key |-> i, val |-> None]
    /\ hist' = [hist EXCEPT ![i] = Expect(cfg, MemArg(cfg))]
    /\ nins' = [b \in Backends |->
                   IF Present(b, cfg, tbl[b], i) THEN nins[b] ELSE nins[b] + 1]
    /\ cur' = NoCursor
    /\ seen' = <<>>
    /\ UNCHANGED <<cfg, ners, hashVars, wyVars, callerVars>>

NextTraversal ==
    \/ \E i \in Keys : TraverseInsert(i)
    \/ \E i \in Keys : Erase(i)
    \/ TraverseFirst
    \/ TraverseNext

SpecTraversal == Init /\ [][NextTraversal]_vars /\ WF_cur(TraverseNext)

(***************************************************************************)
(* The instantiations.  A function of the call surface is named            *)
(* {backend}_{key}_{val}_{operation}.  The headers declare instantiations, *)
(* the source files define them by expanding the wrapper macros; the       *)
(* driver refers to a function by its name and the linker resolves it to   *)
(* the definition, if there is one.                                        *)
(***************************************************************************)
KeyKinds == {"u16", "u32", "u64", "str"}
ValKinds == {"void", "val4", "val56", "val64", "val256"}
Operations == {"init", "cleanup", "insert", "get", "erase", "size",
               "iter_count", "memory", "first", "is_end", "next"}

\* cpp_hashtables_wrapper.h, the same for absl, boost and ankerl
cpp_declared == [key : {"u64", "u16", "str"}, val : {"void", "val4", "val64", "val56"}]
cpp_declared_ops == {"init", "cleanup", "insert", "get", "erase", "size", "iter_count"}

\* cpp_hashtables_wrapper.cpp, the same for absl, boost and ankerl
cpp_defined == [key : {"u32", "u64", "str"}, val : {"void", "val4", "val64"}]
cpp_defined_ops == {"init", "cleanup", "insert", "get", "erase", "size", "iter_count", "memory"}

\* verstable_wrapper.h
vt_declared == [key : {"u64", "str"}, val : {"void", "val4", "val64"}]

\* verstable_wrapper.c
vt_defined == [key : {"u64", "u16", "str"}, val : {"void", "val4", "val64", "val256"}]
vt_ops == {"init", "cleanup", "insert", "get", "erase", "size", "first", "is_end", "next"}

Declared(b, k, v, o) ==
    IF b = "vt" THEN [key |-> k, val |-> v] \in vt_declared /\ o \in vt_ops
    ELSE [key |-> k, val |-> v] \in cpp_declared /\ o \in cpp_declared_ops

Defined(b, k, v, o) ==
    IF b = "vt" THEN [key |-> k, val |-> v] \in vt_defined /\ o \in vt_ops
    ELSE [key |-> k, val |-> v] \in cpp_defined /\ o \in cpp_defined_ops

\* whether the source file of backend b instantiates the cell at all
Instantiated(b, k, v) ==
    IF b = "vt" THEN [key |-> k, val |-> v] \in vt_defined
    ELSE [key |-> k, val |-> v] \in cpp_defined

\* the driver refers to {b}_{k}_{v}_{o}
Resolve(b, k, v, o) ==
    /\ probe' = [called |-> TRUE, fn |-> "link",
                 backend |-> b, key |-> k, val |-> v, operation |-> o,
                 declared |-> Declared(b, k, v, o),
                 defined |-> Defined(b, k, v, o),
                 instantiated |-> Instantiated(b, k, v)]
    /\ UNCHANGED <<tableVars, hashVars, wyVars, scratch, oom, lay>>

NextLink ==
    \E b \in Backends : \E k \in KeyKinds : \E v \in ValKinds : \E o \in Operations :
        Resolve(b, k, v, o)

InitLink == InitKeys /\ cfg.val = "void"

SpecLink == InitLink /\ [][NextLink]_vars

(***************************************************************************)
(* Hashing a string key in each backend.  The C++ table types name         *)
(* WyhashStringView as their hasher; the Verstable string tables name      *)
(* str_hash as HASH_FN.  hkey is the key's bytes, hres the 64-bit hash     *)
(* each backend's table computes for it.                                   *)
(***************************************************************************)
MaxShortLen == 4     \* keys of up to MaxShortLen bytes, every byte chosen
MaxHashLen == 52     \* keys padded up to MaxHashLen bytes
PadLen == 16
KeyBytes == {0, 97, 255}

backend_hash(b, key, len) ==
    IF b = "vt" THEN str_hash(str_key(key, len))
    ELSE WyhashStringView(string_view(key, len))

HashAll(key) == [b \in Backends |-> backend_hash(b, key, Len(key))]

Pad(key) == key \o [j \in 1..PadLen |-> (key[Len(key)] + 13 * j) % 256]

InitHash ==
    /\ cfg = [key |-> "str", val |-> "void"]
    /\ Fresh(cfg)
    /\ hkey = <<>>
    /\ hres = HashAll(<<>>)
    /\ Idle

HashAppend(byte) ==
    /\ Len(hkey) < MaxShortLen
    /\ hkey' = Append(hkey, byte)
    /\ hres' = HashAll(hkey')
    /\ UNCHANGED <<tableVars, wyVars, callerVars>>

HashPad ==
    /\ Len(hkey) > 0
    /\ Len(hkey) + PadLen <= MaxHashLen
    /\ hkey' = Pad(hkey)
    /\ hres' = HashAll(hkey')
    /\ UNCHANGED <<tableVars, wyVars, callerVars>>

NextHash ==
    \/ \E byte \in KeyBytes : HashAppend(byte)
    \/ HashPad

SpecHash == InitHash /\ [][NextHash]_vars

(***************************************************************************)
(* Calls of wyhash::hash.  The key is len bytes at address ptr of the       *)
(* caller's memory mem, which holds other bytes before and after the key.  *)
(* wy records the call: the input, the lanes a and b and the seed the      *)
(* function fed to its final mix, the result, and the result of the call   *)
(* before on the same bytes.  Keys grow one byte at a time.                *)
(***************************************************************************)
\* the hash engine alone: no table is involved
InitEngine ==
    /\ cfg = [key |-> "str", val |-> "void"]
    /\ Fresh(cfg)
    /\ hkey = <<>>
    /\ hres = NoHash
    /\ Idle

MaxWyLen == 114      \* keys of 0..MaxWyLen bytes: two 48-byte blocks, a stride, a tail
KeyFamilies == {1, 131}
Addresses == {0, 5}

WyKey(n, s) == [j \in 1..n |-> (s + 37 * j) % 256]

\* k bytes that belong to something else
Junk(k, tag) == [j \in 1..k |-> (tag + 101 * j) % 256]

\* the caller's memory with the key at address ptr
Place(key, ptr) == Junk(ptr, 7 + ptr) \o key \o Junk(16, 3 + ptr)

\* static_cast<std::uint8_t const*>(key): the memory from the pointer on
at(mem, ptr) == SubSeq(mem, ptr + 1, Len(mem))

KeyOf(w) == SubSeq(w.mem, w.ptr + 1, w.ptr + w.len)

wy_record(fam, mem, ptr, len, l, out, prev) ==
    [called |-> TRUE, fam |-> fam, mem |-> mem, ptr |-> ptr, len |-> len,
     a |-> l.a, b |-> l.b, seed |-> l.seed, out |-> out, prev |-> prev]

\* one call of wyhash::hash(mem + ptr, len)
wy_call(fam, mem, ptr, len, prev) ==
    wy_record(fam, mem, ptr, len, wy_lanes(at(mem, ptr), len),
              wyhash_hash(at(mem, ptr), len), prev)

WyStart(s) ==
    /\ wy = NoCall
    /\ mm = NoCall
    /\ wy' = wy_call(s, Place(WyKey(0, s), 0), 0, 0, NoCall)
    /\ UNCHANGED <<tableVars, hashVars, mm, callerVars>>

\* a call on a key one byte longer
WyGrow ==
    /\ wy /= NoCall
    /\ wy.len < MaxWyLen
    /\ wy' = wy_call(wy.fam, Place(WyKey(wy.len + 1, wy.fam), 0), 0, wy.len + 1, NoCall)
    /\ UNCHANGED <<tableVars, hashVars, mm, callerVars>>

\* a second call on the same bytes, at address ptr, other bytes around them
WyRepeat(ptr) ==
    /\ wy /= NoCall
    /\ wy' = wy_call(wy.fam, Place(KeyOf(wy), ptr), ptr, wy.len,
                     [called |-> TRUE, key |-> KeyOf(wy), out |-> wy.out])
    /\ UNCHANGED <<tableVars, hashVars, mm, callerVars>>

NextWyhash ==
    \/ \E s \in KeyFamilies : WyStart(s)
    \/ WyGrow
    \/ \E ptr \in Addresses : WyRepeat(ptr)

SpecWyhash == InitEngine /\ [][NextWyhash]_vars

(***************************************************************************)
(* Calls of wyhash::mum.  mm records the operands, the pair (lo, hi) of    *)
(* the build with a native 128-bit product and of the portable build, the  *)
(* carry count c of the portable build and the result of mix.              *)
(***************************************************************************)
MumWords ==
    {U64(0), U64(1), U64(3),
     <<255, 255, 255, 255, 0, 0, 0, 0>>, <<0, 0, 0, 0, 1, 0, 0, 0>>,
     <<255, 255, 255, 255, 255, 255, 255, 255>>, <<1, 0, 0, 128, 255, 255, 255, 127>>,
     <<0, 0, 0, 128, 0, 0, 0, 128>>, secret0, secret1, secret2, golden}

mum_carry(q, t) == mum_c(q, t, mum_lo(q, t))

mum_call(a, b) ==
    [called |-> TRUE, a |-> a, b |-> b,
     native |-> mum(a, b), portable |-> mum_portable(a, b),
     c |-> Apply2(mum_carry, mum_parts(a, b), mum_t(mum_parts(a, b))),
     mix |-> mix(a, b)]

MumCall(a, b) ==
    /\ wy = NoCall
    /\ mm = NoCall
    /\ mm' = mum_call(a, b)
    /\ UNCHANGED <<tableVars, hashVars, wy, callerVars>>

\* a second call, the operands exchanged
MumSwap ==
    /\ mm /= NoCall
    /\ mm' = mum_call(mm.b, mm.a)
    /\ UNCHANGED <<tableVars, hashVars, wy, callerVars>>

NextMum ==
    \/ \E a, b \in MumWords : MumCall(a, b)
    \/ MumSwap

SpecMum == InitEngine /\ [][NextMum]_vars

(***************************************************************************)
(* The memory accesses and the loops of wyhash::hash.  A call is followed  *)
(* through the same branches and loops as the hash itself, keeping only    *)
(* the pointer p (as an offset from the key pointer), the counter i, the   *)
(* offsets of the bytes read and the number of runs of each loop.          *)
(***************************************************************************)
MaxTraceLen == 200

\* std::memcpy(&v, p, 8U) and std::memcpy(&v, p, 4): the offsets read
reads_r8(p) == p..(p + 7)

reads_r4(p) == p..(p + 3)

\* an r3 whose last read is p[k]
reads_r3_past_end(p, k) == {p, p + (k \div 2), p + k}

\* p[0], p[k >> 1U], p[k - 1]
reads_r3(p, k) == {p, p + (k \div 2), p + k - 1}

\* a loop test that also runs the block loop for exactly 48 bytes left
wy_more48_inclusive(i) == i >= 48

\* while (i > 48)
wy_more48(i) == i > 48

\* while (i > 16)
wy_more16(i) == i > 16

\* the body of the do-while: six r8 reads, p += 48, i -= 48
wy_body48(w) ==
    [w EXCEPT !.p = @ + 48, !.i = @ - 48, !.runs48 = @ + 1,
              !.reads = @ \cup reads_r8(w.p) \cup reads_r8(w.p + 8)
                          \cup reads_r8(w.p + 16) \cup reads_r8(w.p + 24)
                          \cup reads_r8(w.p + 32) \cup reads_r8(w.p + 40)]

RECURSIVE wy_trace48(_)
wy_again48(w) == IF wy_more48(w.i) THEN wy_trace48(w) ELSE [w EXCEPT !.i48 = w.i]

wy_trace48(w) == Apply1(wy_again48, wy_body48(w))

\* the body of the while loop: two r8 reads, i -= 16, p += 16
wy_body16(w) ==
    [w EXCEPT !.p = @ + 16, !.i = @ - 16, !.runs16 = @ + 1,
              !.reads = @ \cup reads_r8(w.p) \cup reads_r8(w.p + 8)]

RECURSIVE wy_trace16(_)
wy_trace16(w) == IF wy_more16(w.i) THEN wy_trace16(Apply1(wy_body16, w)) ELSE w

\* a = r8(p + i - 16); b = r8(p + i - 8);
wy_trace_tail(w) ==
    [w EXCEPT !.reads = @ \cup reads_r8(w.p + w.i - 16) \cup reads_r8(w.p + w.i - 8)]

wy_trace_start(len) ==
    [called |-> TRUE, fn |-> "hash", len |-> len, p |-> 0, i |-> len, i48 |-> len,
     runs48 |-> 0, runs16 |-> 0, reads |-> {}]

wy_trace_short(w) ==
    IF w.len >= 4
    THEN [w EXCEPT !.reads = reads_r4(0) \cup reads_r4(wy_mid(w.len))
                             \cup reads_r4(w.len - 4)
                             \cup reads_r4(w.len - 4 - wy_mid(w.len))]
    ELSE IF w.len > 0
    THEN [w EXCEPT !.reads = reads_r3(0, w.len)]
    ELSE w

wy_trace_long(w) ==
    Apply1(wy_trace_tail,
           Apply1(wy_trace16, IF wy_more48(w.i) THEN wy_trace48(w) ELSE w))

\* one call of wyhash::hash(key, len)
wy_trace(len) ==
    IF len <= 16 THEN wy_trace_short(wy_trace_start(len))
    ELSE wy_trace_long(wy_trace_start(len))

TraceStart ==
    /\ probe = NoCall
    /\ probe' = wy_trace(0)
    /\ UNCHANGED <<tableVars, hashVars, wyVars, scratch, oom, lay>>

\* a call on a key one byte longer
TraceGrow ==
    /\ probe /= NoCall
    /\ probe.len < MaxTraceLen
    /\ probe' = wy_trace(probe.len + 1)
    /\ UNCHANGED <<tableVars, hashVars, wyVars, scratch, oom, lay>>

NextTrace ==
    \/ TraceStart
    \/ TraceGrow

SpecTrace == InitEngine /\ [][NextTrace]_vars

(***************************************************************************)
(* Calls of str_cmpr and str_hash on two string keys.  Each key is a       *)
(* caller's buffer of MaxCmprLen bytes and a length of at most that; two   *)
(* keys with different buffers are keys at different addresses.            *)
(***************************************************************************)
MaxCmprLen == 2

CmprBytes == {0, 97, 255}

CmprKeys ==
    {str_key(buf, len) : buf \in [1..MaxCmprLen -> CmprBytes], len \in 0..MaxCmprLen}

cmpr_call(a, b) ==
    [called |-> TRUE, fn |-> "str_cmpr", a |-> a, b |-> b,
     equal |-> str_cmpr(a, b), hash_a |-> str_hash(a), hash_b |-> str_hash(b)]

CmprCall(a, b) ==
    /\ probe = NoCall
    /\ probe' = cmpr_call(a, b)
    /\ UNCHANGED <<tableVars, hashVars, wyVars, scratch, oom, lay>>

\* a second call, the keys exchanged
CmprSwap ==
    /\ probe /= NoCall
    /\ probe' = cmpr_call(probe.b, probe.a)
    /\ UNCHANGED <<tableVars, hashVars, wyVars, scratch, oom, lay>>

NextCompare ==
    \/ \E a, b \in CmprKeys : CmprCall(a, b)
    \/ CmprSwap

SpecCompare == InitEngine /\ [][NextCompare]_vars

(***************************************************************************)
(* Calls of wyhash::hash(std::uint64_t) and of wyhash::mix with a zero     *)
(* operand.  A call is made on a word of MixWords or on the result of the  *)
(* call before, at most MaxChain times in a row.                           *)
(***************************************************************************)
MaxChain == 3

MixWords ==
    MumWords \cup
    {[i \in 1..8 |-> IF i = at_byte THEN v ELSE 0] : at_byte \in 1..8, v \in {1, 2, 16, 128, 255}}

mix_call(x, calls) ==
    [called |-> TRUE, fn |-> "hash_u64", x |-> x, calls |-> calls,
     result |-> wyhash_hash_u64(x),
     zero_left |-> mix(U64(0), x), zero_right |-> mix(x, U64(0))]

MixCall(x) ==
    /\ probe = NoCall
    /\ probe' = mix_call(x, 1)
    /\ UNCHANGED <<tableVars, hashVars, wyVars, scratch, oom, lay>>

\* the hash of the hash
MixAgain ==
    /\ probe /= NoCall
    /\ probe.calls < MaxChain
    /\ probe' = mix_call(probe.result, probe.calls + 1)
    /\ UNCHANGED <<tableVars, hashVars, wyVars, scratch, oom, lay>>

NextMix ==
    \/ \E x \in MixWords : MixCall(x)
    \/ MixAgain

SpecMix == InitEngine /\ [][NextMix]_vars

(***************************************************************************)
(* Properties of the table contract.  op is the last call made, old the    *)
(* tables before it, tbl the tables after it and ret what it returned.     *)
(***************************************************************************)
SizeOf(b, t) == call_size(b, cfg, t).ret

GetOf(b, t, i) == call_get(b, cfg, t, i).ret

OthersKept(b, i) == \A j \in Keys \ {i} : GetOf(b, tbl[b], j) = GetOf(b, old[b], j)

Tombstoned(t, i) ==
    \E j \in 1..Len(t.metadata) :
        /\ t.metadata[j] = VT_TOMBSTONE
        /\ t.buckets[j].key = KeyVal(cfg.key, i)

Distinct(q) == \A x, y \in 1..Len(q) : x /= y => q[x] /= q[y]

KeysPresent(b) == {KeyVal(cfg.key, i) : i \in PresentKeys(b, cfg, tbl[b])}

AtEnd == cur /= NoCursor /\ call_is_end(cfg, cur) = 1

\* C1: in every instantiation, insert returns 1 iff the key was absent just before
\* the call, and 0 when the key was already present.
C1_InsertReturnsAbsent ==
    op.name = "insert" =>
        \A b \in Backends : (ret[b] = 1) <=> ~Present(b, cfg, old[b], op.key)

\* C2: on a map, a key that was inserted with a value and has not been erased or
\* inserted again since is found by get, with bytes equal to that value, whatever
\* was done to other keys in between (growth included).
C2_RoundTrip ==
    (Live /\ cfg.val /= "void") =>
        \A b \in Backends : \A i \in Keys :
            hist[i] /= NoVal =>
                /\ GetOf(b, tbl[b], i) /= nullptr
                /\ GetOf(b, tbl[b], i) = hist[i]
                /\ (op.name = "get" /\ op.key = i) => ret[b] = hist[i]

C2_Witness ==
    /\ op.name = "get"
    /\ cfg.val = "val4"
    /\ hist[op.key] /= NoVal
    /\ \A b \in Backends : ret[b] = hist[op.key]
    /\ Len(tbl["vt"].metadata) > VT_MIN_BUCKETS
    /\ \E j \in Keys \ {op.key} : Tombstoned(tbl["vt"], j)

\* C3: insert on a map of a key that is already present replaces the stored value:
\* the next get returns the new bytes, size and every other key's value are as before.
C3_InsertOverwrites ==
    (op.name = "insert" /\ cfg.val /= "void") =>
        \A b \in Backends :
            Present(b, cfg, old[b], op.key) =>
                /\ GetOf(b, tbl[b], op.key) = Expect(cfg, op.val)
                /\ SizeOf(b, tbl[b]) = SizeOf(b, old[b])
                /\ OthersKept(b, op.key)

C3_Witness ==
    /\ op.name = "insert"
    /\ cfg.val = "val4"
    /\ \A b \in Backends :
           /\ Present(b, cfg, old[b], op.key)
           /\ GetOf(b, old[b], op.key) /= Expect(cfg, op.val)
           /\ GetOf(b, tbl[b], op.key) = Expect(cfg, op.val)
           /\ SizeOf(b, tbl[b]) = 2

\* C4: erase returns 1 iff the key was present just before the call; when it
\* returns 1 the size is one less, the key is absent afterwards and every other
\* key keeps its presence and value.
C4_EraseReturnsPresent ==
    op.name = "erase" =>
        \A b \in Backends :
            /\ (ret[b] = 1) <=> Present(b, cfg, old[b], op.key)
            /\ ret[b] = 1 =>
                   /\ SizeOf(b, tbl[b]) = SizeOf(b, old[b]) - 1
                   /\ ~Present(b, cfg, tbl[b], op.key)
                   /\ OthersKept(b, op.key)

C4_Witness ==
    /\ op.name = "erase"
    /\ \A b \in Backends :
           /\ ret[b] = 1
           /\ Present(b, cfg, old[b], op.key)
           /\ SizeOf(b, tbl[b]) = 1

\* C5: erase of an absent key (never inserted, or erased before) returns 0 and
\* leaves the size and the presence and value of every key as they were.
C5_EraseAbsent ==
    op.name = "erase" =>
        \A b \in Backends :
            ~Present(b, cfg, old[b], op.key) =>
                /\ ret[b] = 0
                /\ SizeOf(b, tbl[b]) = SizeOf(b, old[b])
                /\ \A j \in Keys : GetOf(b, tbl[b], j) = GetOf(b, old[b], j)

\* the second of two erases of the same key, other keys still stored
C5_Witness ==
    /\ op.name = "erase"
    /\ \A b \in Backends : ret[b] = 0 /\ SizeOf(b, tbl[b]) >= 1
    /\ Tombstoned(old["vt"], op.key)

\* C6: size is the number of keys that get reports present, which is the number of
\* inserts of an absent key minus the number of erases of a present key since create.
C6_SizeCountsKeys ==
    Live =>
        \A b \in Backends :
            /\ SizeOf(b, tbl[b]) = Cardinality(PresentKeys(b, cfg, tbl[b]))
            /\ SizeOf(b, tbl[b]) = nins[b] - ners[b]
            /\ op.name = "size" => ret[b] = nins[b] - ners[b]

C6_Witness ==
    /\ op.name = "size"
    /\ \A b \in Backends : ret[b] = 1 /\ nins[b] = 2 /\ ners[b] = 1

\* C7: size equals the count of a full traversal started right after the inserts
\* and erases: iter_count on the C++ tables; first, then next until is_end, on vt.
C7_SizeIsTraversalCount ==
    Live =>
        /\ \A b \in Backends : SizeOf(b, tbl[b]) = TraversalCount(b, cfg, tbl[b])
        /\ op.name = "iter_count" =>
               \A b \in CppBackends : ret[b] = SizeOf(b, tbl[b])
        /\ AtEnd => Len(seen) = SizeOf("vt", tbl["vt"])

C7_Witness ==
    /\ op.name = "iter_count"
    /\ \A b \in CppBackends : ret[b] = 1 /\ ners[b] = 1
    /\ AtEnd
    /\ Len(seen) = 1

\* C8: a vt traversal with no insert or erase during it visits every entry exactly
\* once: the keys visited are pairwise distinct, all of them are present, and at
\* the end cursor they are exactly the keys present.
C8_TraversalVisitsEachOnce ==
    Live =>
        /\ Distinct(vt_traverse(cfg, tbl["vt"]))
        /\ {vt_traverse(cfg, tbl["vt"])[x] : x \in 1..Len(vt_traverse(cfg, tbl["vt"]))}
               = KeysPresent("vt")
        /\ cur /= NoCursor =>
               /\ Distinct(seen)
               /\ {seen[x] : x \in 1..Len(seen)} \subseteq KeysPresent("vt")
        /\ AtEnd => {seen[x] : x \in 1..Len(seen)} = KeysPresent("vt")

C8_Witness ==
    /\ op.name = "next"
    /\ AtEnd
    /\ Len(seen) = 2
    /\ Len(tbl["vt"].metadata) > VT_MIN_BUCKETS

\* C9: every create, insert, get, erase and size call returns the same result in
\* the absl, boost, ankerl and vt table of the same key and value kind.
C9_BackendsAgree ==
    op.name \in {"init", "insert", "get", "erase", "size"} =>
        \A a, b \in Backends : ret[a] = ret[b]

\* C10: for the same key bytes every string-keyed backend computes the same hash.
C10_SameHash == \A a, b \in Backends : hres[a] = hres[b]

Absent == IF cfg.val = "void" THEN 0 ELSE nullptr

WasFresh == \A b \in Backends : old[b] = call_init(b, cfg).m

\* C16: get of an absent key returns NULL on a map and 0 on a set, and a get, hit
\* or miss, leaves the size and the presence and value of every key unchanged.
C16_GetAbsent ==
    op.name = "get" =>
        \A b \in Backends :
            /\ hist[op.key] = NoVal => ret[b] = Absent
            /\ SizeOf(b, tbl[b]) = SizeOf(b, old[b])
            /\ \A j \in Keys : GetOf(b, tbl[b], j) = GetOf(b, old[b], j)

\* a miss on a key that was erased, in a map that holds another key
C16_Witness ==
    /\ op.name = "get"
    /\ cfg.val = "val4"
    /\ hist[op.key] = NoVal
    /\ Tombstoned(tbl["vt"], op.key)
    /\ \A b \in Backends : ret[b] = nullptr /\ SizeOf(b, tbl[b]) = 1

\* C17: a table is created empty: right after init its size is 0, get reports
\* every key absent, erase returns 0 for every key and a traversal is over at once
\* (iter_count is 0 on the C++ tables, is_end(first) is 1 on the vt table).
C17_CreatedEmpty ==
    /\ op.name = "init" =>
           /\ \A b \in Backends :
                  /\ SizeOf(b, tbl[b]) = 0
                  /\ \A k \in Keys :
                         /\ GetOf(b, tbl[b], k) = Absent
                         /\ call_erase(b, cfg, tbl[b], k).ret = 0
           /\ \A b \in CppBackends : call_iter_count(cfg, tbl[b]).ret = 0
           /\ call_is_end(cfg, call_first(cfg, tbl["vt"])) = 1
    /\ WasFresh =>
           /\ op.name \in {"get", "erase"} =>
                  \A b \in Backends : ret[b] = (IF op.name = "get" THEN Absent ELSE 0)
           /\ op.name = "size" => \A b \in Backends : ret[b] = 0
           /\ op.name = "iter_count" => \A b \in CppBackends : ret[b] = 0
           /\ op.name = "first" => AtEnd

\* erase is the first call after init
C17_Witness ==
    /\ op.name = "erase"
    /\ WasFresh
    /\ \A b \in Backends : ret[b] = 0 /\ SizeOf(b, tbl[b]) = 0

\* a caller's buffer of w + 1 bytes for a value of w bytes
WideBuf(w) == [j \in 1..(w + 1) |-> (7 * j) % 256]

\* insert of key i on the map of value width w of backend b
InsertWide(b, t, i, w) ==
    IF b = "vt"
    THEN IF cfg.key = "u64"
         THEN vt_int_map_insert(t, i, WideBuf(w), w, TRUE)
         ELSE vt_str_map_insert(t, StrBuf(i), StrLen(i), WideBuf(w), w, TRUE)
    ELSE IF cfg.key = "u64"
         THEN cpp_int_map_insert(t, i, WideBuf(w), w)
         ELSE cpp_str_map_insert(t, StrBuf(i), StrLen(i), WideBuf(w), w)

\* the backends that instantiate a map of value width w
WidthBackends(w) == IF w = Val256Size THEN {"vt"} ELSE Backends

\* C18: insert copies exactly the value width out of the caller's buffer (4, 64 or
\* 256 bytes), so get returns those bytes, and still returns them after the caller
\* has written other bytes into the buffer.
C18_ValueCopied ==
    cfg.val /= "void" =>
        /\ op.name = "insert" =>
               /\ \A b \in Backends :
                      GetOf(b, tbl[b], op.key) = SubSeq(op.val, 1, Val4Size)
               /\ \A w \in {Val64Size, Val256Size} : \A b \in WidthBackends(w) :
                      GetOf(b, InsertWide(b, old[b], op.key, w).m, op.key)
                          = SubSeq(WideBuf(w), 1, w)
        /\ op.name = "reuse" =>
               \A b \in Backends :
                   /\ GetOf(b, tbl[b], op.key) = hist[op.key]
                   /\ \A j \in Keys : GetOf(b, tbl[b], j) = GetOf(b, old[b], j)

\* the buffer now holds other bytes than the table returns for the key
C18_Witness ==
    /\ op.name = "reuse"
    /\ cfg.val = "val4"
    /\ hist[op.key] /= SubSeq(op.val, 1, Val4Size)
    /\ \A b \in Backends :
           /\ GetOf(b, tbl[b], op.key) = hist[op.key]
           /\ SizeOf(b, tbl[b]) = 2

\* C19: string-keyed tables come in an owning instantiation, which copies the key
\* bytes on insert, so that get still finds the key after the caller has overwritten
\* the buffer it inserted from, and in a borrowing instantiation, which stores only
\* the pointer and the length.
C19_BothModesOffered ==
    (op.name = "overwrite" /\ StrLen(op.key) > 0) =>
        /\ \E b \in Backends : Present(b, cfg, tbl[b], op.key)
        /\ \E b \in Backends : ~Present(b, cfg, tbl[b], op.key)

\* C20: an allocation failure during init or insert is fatal in every backend: the
\* call does not return, so no insert returns 0 for it and leaves a usable table.
C20_AllocFailureIsFatal ==
    \A b \in Backends :
        oom[b] /= "none" => (oom[b] = "aborted" /\ tbl[b] = Destroyed)

\* the size of one entry of a C++ table of each kind, in bytes
EntrySize(c) ==
    IF c.key = "u64" THEN (IF c.val = "void" THEN 8 ELSE 16)
    ELSE (IF c.val = "void" THEN 16 ELSE 24)

\* C21: memory(h) is the reserved bucket count times the size of one entry plus the
\* size of the table object; it depends on the bucket count only, not on the entries
\* that are live, it is never below the size of the table object, and the query
\* leaves the table unchanged.
C21_MemoryFootprint ==
    op.name = "memory" =>
        \A b \in CppBackends :
            /\ ret[b] = lay[b].buckets * EntrySize(cfg) + lay[b].self
            /\ ret[b] >= lay[b].self
            /\ tbl[b] = old[b]

\* memory is asked of a table that holds fewer entries than it has buckets, after
\* an erase
C21_Witness ==
    /\ op.name = "memory"
    /\ \E b \in CppBackends :
           /\ ners[b] > 0
           /\ lib_size(tbl[b]) > 0
           /\ lay[b].buckets > lib_size(tbl[b])
           /\ ret[b] > lay[b].self

\* C22: every backend defines an instantiation for every cell of the matrix of key
\* kinds {u16, u32, u64, byte-span} and value kinds {set, 4, 56, 64, 256 bytes}, and
\* every function a wrapper header declares is defined by the source file.
C22_MatrixComplete ==
    (probe.called /\ probe.fn = "link") =>
        /\ probe.instantiated
        /\ probe.declared => probe.defined

(***************************************************************************)
(* Properties of the hash engine.  wy is the last call of wyhash::hash,    *)
(* mm the last call of wyhash::mum.                                        *)
(***************************************************************************)
Called == wy /= NoCall

\* C11: wyhash::hash is a pure function of the len key bytes: a second call on
\* byte-equal input, at the same or at another address and with other bytes before
\* and after the key, returns the same 64-bit value as the call before it.
C11_HashIsPure ==
    (Called /\ wy.prev /= NoCall) =>
        (wy.prev.key = KeyOf(wy) =>
            /\ wy.out = wy.prev.out
            /\ Len(wy.out) = 8
            /\ \A j \in 1..8 : wy.out[j] \in Byte)

\* the same bytes of a three-block key, hashed again at another address
C11_Witness ==
    /\ Called
    /\ wy.prev /= NoCall
    /\ wy.prev.key = KeyOf(wy)
    /\ wy.ptr = 5
    /\ wy.len > 96
    /\ wy.out = wy.prev.out

\* the 4 bytes at offset off of the key, as the low half of a lane
read4(K, off) == <<K[off + 1], K[off + 2], K[off + 3], K[off + 4]>>

\* C13: for len <= 16 the lanes are as specified and the seed is the first secret.
\* len in 4..16: a has read4(0) in its high half and read4((len>>3)<<2) in its low
\* half, b has read4(len-4) high and read4(len-4-((len>>3)<<2)) low; len in 1..3:
\* a = byte[0]<<16 | byte[len>>1]<<8 | byte[len-1] and b = 0; len = 0: a = b = 0.
C13_ShortLanes ==
    (Called /\ wy.len <= 16) =>
        /\ wy.seed = secret0
        /\ wy.len \in 4..16 =>
               /\ wy.a = read4(KeyOf(wy), (wy.len \div 8) * 4) \o read4(KeyOf(wy), 0)
               /\ wy.b = read4(KeyOf(wy), wy.len - 4 - (wy.len \div 8) * 4)
                             \o read4(KeyOf(wy), wy.len - 4)
        /\ wy.len \in 1..3 =>
               /\ wy.a = U64(KeyOf(wy)[1] * 65536
                             + KeyOf(wy)[(wy.len \div 2) + 1] * 256
                             + KeyOf(wy)[wy.len])
               /\ wy.b = U64(0)
        /\ wy.len = 0 => (wy.a = U64(0) /\ wy.b = U64(0))

\* a 12-byte key: the middle offset is 4, the four reads overlap
C13_Witness ==
    /\ Called
    /\ wy.len = 12
    /\ wy.ptr = 5
    /\ wy.a = read4(KeyOf(wy), 4) \o read4(KeyOf(wy), 0)
    /\ wy.b = read4(KeyOf(wy), 4) \o read4(KeyOf(wy), 8)

\* the specified long-input rule, computed forward over the key: block k (1-based)
\* is the 48 bytes at offset 48 * (k - 1)
ref_block(K, off, acc) ==
    <<mix(Xor(r8(K, off), secret1), Xor(r8(K, off + 8), acc[1])),
      mix(Xor(r8(K, off + 16), secret2), Xor(r8(K, off + 24), acc[2])),
      mix(Xor(r8(K, off + 32), secret3), Xor(r8(K, off + 40), acc[3]))>>

RECURSIVE ref_blocks(_, _)
ref_blocks(K, k) ==
    IF k = 0 THEN <<secret0, secret0, secret0>>
    ELSE Apply3(ref_block, K, 48 * (k - 1), ref_blocks(K, k - 1))

ref_combined(acc) == Xor(Xor(acc[1], acc[2]), acc[3])

\* the number of 48-byte blocks and of 16-byte strides a key of len bytes has
ref_nblocks(len) == IF len > 48 THEN (len - 1) \div 48 ELSE 0
ref_nstrides(len) == ((len - 48 * ref_nblocks(len)) - 1) \div 16

ref_stride(K, off, seed) == mix(Xor(r8(K, off), secret1), Xor(r8(K, off + 8), seed))

\* the seed after j strides that start at offset from
RECURSIVE ref_strides(_, _, _, _)
ref_strides(K, from, j, seed0) ==
    IF j = 0 THEN seed0
    ELSE Apply3(ref_stride, K, from + 16 * (j - 1), ref_strides(K, from, j - 1, seed0))

ref_seed(K, len) ==
    ref_strides(K, 48 * ref_nblocks(len), ref_nstrides(len),
                IF len > 48 THEN Apply1(ref_combined, ref_blocks(K, ref_nblocks(len)))
                ELSE secret0)

\* C14: for len > 16 the seed is the first secret folded over the key in 16-byte
\* strides, seed = mix(read8(p) ^ secret1, read8(p+8) ^ seed); for len > 48 the
\* 48-byte blocks come first, with three accumulators that start at the first
\* secret, are keyed by secret1, secret2, secret3 and are XOR-ed into the seed before
\* the remaining strides; lane a is the 8 bytes at offset len-16 and lane b the 8
\* bytes at offset len-8 of the key.
C14_LongInput ==
    (Called /\ wy.len > 16) =>
        /\ wy.seed = ref_seed(KeyOf(wy), wy.len)
        /\ wy.a = SubSeq(KeyOf(wy), wy.len - 15, wy.len - 8)
        /\ wy.b = SubSeq(KeyOf(wy), wy.len - 7, wy.len)

\* two 48-byte blocks, then a 16-byte stride, then the tail
C14_Witness ==
    /\ Called
    /\ wy.len > 96
    /\ ref_nblocks(wy.len) = 2
    /\ ref_nstrides(wy.len) = 1
    /\ wy.seed = ref_seed(KeyOf(wy), wy.len)
    /\ wy.seed /= secret0

\* C15: the result is mix(secret1 ^ len, mix(a ^ secret1, b ^ seed)), len being the
\* length the call was made with, a, b and seed the lanes and the seed after all
\* strides; the four secrets are odd.
C15_FinalMix ==
    /\ \A k \in {secret0, secret1, secret2, secret3} : k[1] % 2 = 1
    /\ Called =>
           wy.out = mix(Xor(secret1, U64(wy.len)),
                        mix(Xor(wy.a, secret1), Xor(wy.b, wy.seed)))

\* a key whose length differs from the count left after the stride loops
C15_Witness ==
    /\ Called
    /\ wy.len = 50
    /\ wy.out = mix(Xor(secret1, U64(50)), mix(Xor(wy.a, secret1), Xor(wy.b, wy.seed)))
    /\ wy.out /= mix(Xor(secret1, U64(2)), mix(Xor(wy.a, secret1), Xor(wy.b, wy.seed)))

\* C12: mix(a, b) is the low 64 bits XOR the high 64 bits of the 128-bit product
\* a * b, and the portable mum (partial products rh, rm0, rm1, rl, carries c, sums
\* modulo 2^64) yields the same (lo, hi) as the native 128-bit multiply.
C12_MumBuildsAgree ==
    mm /= NoCall =>
        /\ mm.portable = mm.native
        /\ mm.native = <<SubSeq(Mul(mm.a, mm.b), 1, 8), SubSeq(Mul(mm.a, mm.b), 9, 16)>>
        /\ mm.mix = Xor(SubSeq(Mul(mm.a, mm.b), 1, 8), SubSeq(Mul(mm.a, mm.b), 9, 16))

\* operands whose partial sums carry twice
C12_Witness ==
    /\ mm /= NoCall
    /\ mm.c = 2
    /\ mm.portable = mm.native
    /\ mm.native[2] /= U64(0)

\* a traversal is in progress: the cursor is valid
Traversing == cur /= NoCursor /\ probe.called /\ probe.fn = "traverse"

TraversalStep ==
    Traversing =>
        /\ call_is_end(cfg, cur) = 1 <=> cur.metadatum = cur.metadata_end
        /\ cur.metadatum <= cur.metadata_end
        /\ call_is_end(cfg, cur) = 0 =>
               /\ tbl["vt"].metadata[cur.metadatum + 1] = VT_OCCUPIED
               /\ probe.steps < SizeOf("vt", tbl["vt"])
        /\ op.name = "next" => cur.metadatum > probe.prev.metadatum
        /\ call_is_end(cfg, cur) = 1 => probe.steps = SizeOf("vt", tbl["vt"])

\* C25: a vt traversal of a table that is not mutated terminates: is_end holds exactly
\* when metadatum = metadata_end, every next on a non-end cursor returns a cursor
\* with a strictly greater metadatum, at most metadata_end, that is the end cursor or
\* is on an occupied bucket, and from first the end cursor is reached after exactly
\* size calls of next.
C25_TraversalTerminates ==
    /\ []TraversalStep
    /\ MayAdvance ~> ~MayAdvance

\* a traversal of two entries among more buckets reaches the end
C25_Witness ==
    /\ Traversing
    /\ op.name = "next"
    /\ call_is_end(cfg, cur) = 1
    /\ probe.steps = 2
    /\ cur.metadata_end > 2

\* the backend's own iterator after first and n calls of the backend's next
RECURSIVE InternalAt(_, _)
InternalAt(t, n) ==
    IF n = 0 THEN vt_internal_first(t)
    ELSE Apply2(vt_internal_next, t, InternalAt(t, n - 1))

\* C26: the generic cursor is a lossless image of the backend iterator: first and
\* next copy the four fields in both directions, so that the wrapper's next commutes
\* with the backend's next and the wrapper's is_end agrees with the backend's
\* is_end on every cursor of a traversal.
C26_CursorIsImage ==
    Traversing =>
        /\ cur = to_generic(InternalAt(tbl["vt"], probe.steps))
        /\ from_generic(cur) = InternalAt(tbl["vt"], probe.steps)
        /\ call_is_end(cfg, cur) = 1
               <=> vt_internal_is_end(InternalAt(tbl["vt"], probe.steps))
        /\ MayAdvance =>
               call_next(cfg, tbl["vt"], to_generic(InternalAt(tbl["vt"], probe.steps)))
                   = to_generic(vt_internal_next(tbl["vt"],
                                                 InternalAt(tbl["vt"], probe.steps)))

\* a cursor on the second entry of a traversal, not at bucket 0, with more to come
C26_Witness ==
    /\ Traversing
    /\ probe.steps = 1
    /\ MayAdvance
    /\ cur.itr_data > 0
    /\ cur.metadata_end > cur.metadatum + 1

\* a call of wyhash::hash that has been followed
Traced == probe.called /\ probe.fn = "hash"

\* C23: wyhash::hash never reads outside its input: every byte read by r3, r4 and r8
\* is at an offset in [0, len) of the buffer, and for len = 0 no byte is read.
C23_ReadsInBounds ==
    Traced =>
        /\ probe.reads \subseteq 0..(probe.len - 1)
        /\ probe.len = 0 => probe.reads = {}

\* a long key whose first and last byte are read after two runs of the block loop
C23_Witness ==
    /\ Traced
    /\ probe.len > 96
    /\ probe.runs48 = 2
    /\ 0 \in probe.reads
    /\ (probe.len - 1) \in probe.reads

\* C24: for len > 16 the loops of wyhash::hash terminate: the 48-byte do-while runs
\* ceil(len/48) - 1 times when len > 48 and not at all otherwise, and leaves a count
\* in [1, 48]; the 16-byte loop then leaves a count i in [1, 16] with the pointer
\* advanced by exactly len - i bytes.
C24_LoopsTerminate ==
    (Traced /\ probe.len > 16) =>
        /\ probe.runs48 = (IF probe.len > 48 THEN ((probe.len + 47) \div 48) - 1 ELSE 0)
        /\ probe.i48 \in 1..48
        /\ probe.i \in 1..16
        /\ probe.p = probe.len - probe.i
        /\ probe.p = 48 * probe.runs48 + 16 * probe.runs16

\* a key of a multiple of 48 bytes: the block loop stops with 48 bytes left and the
\* stride loop takes over
C24_Witness ==
    /\ Traced
    /\ probe.len = 144
    /\ probe.runs48 = 2
    /\ probe.i48 = 48
    /\ probe.runs16 = 2
    /\ probe.i = 16


\* a call of str_cmpr and str_hash on two keys
Compared == probe.called /\ probe.fn = "str_cmpr"

\* 64-bit FNV-1a of the first n bytes, from its definition
RECURSIVE Fnv1a(_, _)
Fnv1a(bytes, n) ==
    IF n = 0 THEN <<37, 35, 34, 132, 228, 156, 242, 203>>
    ELSE MulLow(Xor(Fnv1a(bytes, n - 1), U64(bytes[n])),
                <<179, 1, 0, 0, 0, 1, 0, 0>>)

SameContent(a, b) ==
    /\ a.len = b.len
    /\ SubSeq(a.ptr, 1, a.len) = SubSeq(b.ptr, 1, a.len)

\* C27: str_cmpr(a, b) is true exactly when the two lengths are equal and
\* the first a.len bytes are equal, whatever the two pointers are, so that
\* any two keys of length 0 are equal; keys that compare equal have the same
\* str_hash; and str_hash is 64-bit FNV-1a: it starts from
\* 14695981039346656037 and, for each byte, XORs the byte in and multiplies
\* by 1099511628211 modulo 2^64 (the hash of no bytes is 0xcbf29ce484222325
\* and the hash of the byte 'a' is 0xaf63dc4c8601ec8c).
C27_StringKeysByContent ==
    Compared =>
        /\ probe.equal <=> SameContent(probe.a, probe.b)
        /\ (probe.a.len = 0 /\ probe.b.len = 0) => probe.equal
        /\ probe.equal => probe.hash_a = probe.hash_b
        /\ probe.hash_a = Fnv1a(probe.a.ptr, probe.a.len)
        /\ probe.hash_b = Fnv1a(probe.b.ptr, probe.b.len)
        /\ probe.a.len = 0 => probe.hash_a = <<37, 35, 34, 132, 228, 156, 242, 203>>
        /\ (probe.a.len = 1 /\ probe.a.ptr[1] = 97)
               => probe.hash_a = <<140, 236, 1, 134, 76, 220, 99, 175>>

\* two keys of one byte at different addresses compare equal
C27_Witness ==
    /\ Compared
    /\ probe.equal
    /\ probe.a.len = 1
    /\ probe.a.ptr /= probe.b.ptr
    /\ probe.hash_a = probe.hash_b


\* a call of wyhash::hash(std::uint64_t)
Mixed == probe.called /\ probe.fn = "hash_u64"

\* st = <<sum, addend>>: the addend is added to the sum for each set bit of
\* v, lowest first, and doubled after each bit
RECURSIVE AddBits(_, _, _)
AddBits(st, v, n) ==
    IF n = 0 THEN st
    ELSE Apply3(AddBits,
                <<IF v % 2 = 1 THEN Add(st[1], st[2]) ELSE st[1], Add(st[2], st[2])>>,
                v \div 2, n - 1)

RECURSIVE AddBytes(_, _, _)
AddBytes(st, b, i) ==
    IF i > 8 THEN st[1]
    ELSE Apply3(AddBytes, AddBits(st, b[i], 8), b, i + 1)

\* the 128-bit product of two 64-bit words by shifting and adding
ShiftAdd(a, b) == AddBytes(<<U64(0) \o U64(0), a \o U64(0)>>, b, 1)

XorHalves(r) == Xor(SubSeq(r, 1, 8), SubSeq(r, 9, 16))

\* low half XOR high half of the product
MixOf(a, b) == Apply1(XorHalves, ShiftAdd(a, b))

\* C28: hash_u64(x) is mix(x, 0x9E3779B97F4A7C15), the XOR of the two halves
\* of the 128-bit product of x and that constant, for every 64-bit x, with
\* no part taken by the four secrets; hash_u64(0) is 0, and mix(a, b) is 0
\* whenever a or b is 0.  (hash_u64(1) is the constant itself and
\* hash_u64(2) is 0x3c6ef372fe94f82b.)
C28_IntegerHashIsMix ==
    Mixed =>
        /\ probe.result = MixOf(probe.x, <<21, 124, 74, 127, 185, 121, 55, 158>>)
        /\ probe.x = U64(0) => probe.result = U64(0)
        /\ probe.zero_left = U64(0)
        /\ probe.zero_right = U64(0)
        /\ probe.x = U64(1) => probe.result = <<21, 124, 74, 127, 185, 121, 55, 158>>
        /\ probe.x = U64(2) => probe.result = <<43, 248, 148, 254, 114, 243, 110, 60>>

\* the hash of a word with bits in both halves, itself hashed again
C28_Witness ==
    /\ Mixed
    /\ probe.calls = 2
    /\ probe.x[1] > 0
    /\ probe.x[8] > 0
    /\ probe.result /= U64(0)

====
